---- MODULE Spec2Model ----
(***************************************************************************)
(* Model of the TJ 8th-period auto-signup monitor (the refactored package  *)
(* under src/src, started by src/scripts/run_monitor.py).                  *)
(*                                                                         *)
(* One logical thread: main -> run_continuous -> run_monitoring_cycle ->   *)
(* {authenticate, monitor_page, attempt_signup}.  The web site, the        *)
(* browser and the SMTP transport are the environment: every answer they   *)
(* can give is a nondeterministic choice of the action that asks.          *)
(***************************************************************************)
EXTENDS Integers, Sequences, FiniteSets, TLC

\* ------------------------------------------------------------------ bounds
\* Number of configured pages (URL_START..URL_END of the configuration).
NumPages == 3
\* Monitoring cycles the model follows before it stops exploring.
MaxCycles == 2
\* Most lines in an entry's text, most items in a FAVORITES setting, most
\* favorites in a matcher's list, and the largest fill count of an entry, in
\* the calls of the matcher's and the loader's functions.
MaxLines == 3
MaxItems == 3
MaxFavorites == 2
MaxFill == 11

\* ------------------------------------------------------ program constants
\* find_matches examines at most this many entries of a page.
MaxExamined == 20
\* send_favorites_available lists at most this many matches.
SummaryCap == 5

\* ------------------------------------------------------------------ strings
\* A string is a sequence of one-character strings.
\* Python's None where a string is expected: no element of the catalogue is empty.
None == <<>>

\* The characters of a string literal.
Chars(str) == [k \in 1..Len(str) |-> SubSeq(str, k, k)]

UpperCase == Chars("ABCDEFGHIJKLMNOPQRSTUVWXYZ")
LowerCase == Chars("abcdefghijklmnopqrstuvwxyz")
Digits == Chars("0123456789")

LowerChar(c) ==
    IF \E k \in DOMAIN UpperCase : UpperCase[k] = c
    THEN LowerCase[CHOOSE k \in DOMAIN UpperCase : UpperCase[k] = c]
    ELSE c

\* str.isspace() of one character, for the white space the model's texts use.
IsSpace(c) == c \in {" ", "\n", "\t"}

\* A decimal digit.
IsDigit(c) == \E k \in DOMAIN Digits : Digits[k] = c

\* str.isdigit(): not empty, and every character a digit.
IsDigitStr(s) == s # <<>> /\ \A k \in DOMAIN s : IsDigit(s[k])

\* str.strip()
Strip(s) ==
    IF \A k \in DOMAIN s : IsSpace(s[k])
    THEN <<>>
    ELSE LET first == CHOOSE k \in DOMAIN s :
                         ~IsSpace(s[k]) /\ \A j \in 1..(k - 1) : IsSpace(s[j])
             last == CHOOSE k \in DOMAIN s :
                        ~IsSpace(s[k]) /\ \A j \in (k + 1)..Len(s) : IsSpace(s[j])
         IN  SubSeq(s, first, last)

\* str.split(sep) for a one-character separator: the pieces between the
\* separators, the empty ones included.
RECURSIVE SplitOnFrom(_, _, _, _)
SplitOnFrom(s, sep, k, piece) ==
    IF k > Len(s)
    THEN <<piece>>
    ELSE IF s[k] = sep
         THEN <<piece>> \o SplitOnFrom(s, sep, k + 1, <<>>)
         ELSE SplitOnFrom(s, sep, k + 1, Append(piece, s[k]))

SplitOn(s, sep) == SplitOnFrom(s, sep, 1, <<>>)

\* sep.join(pieces)
RECURSIVE Join(_, _)
Join(pieces, sep) ==
    IF pieces = <<>> THEN <<>>
    ELSE IF Len(pieces) = 1 THEN pieces[1]
    ELSE pieces[1] \o <<sep>> \o Join(Tail(pieces), sep)

\* str(n) for a natural number.
RECURSIVE Str(_)
Str(n) == IF n < 10 THEN <<Digits[n + 1]>> ELSE Str(n \div 10) \o <<Digits[(n % 10) + 1]>>

\* str.lower()
Lower(s) == [k \in 1..Len(s) |-> LowerChar(s[k])]

\* sub in s
Contains(s, sub) ==
    \E k \in 0..(Len(s) - Len(sub)) : SubSeq(s, k + 1, k + Len(sub)) = sub

\* str.split(): the maximal runs of non-space characters, in order.
RECURSIVE SplitFrom(_, _, _)
SplitFrom(s, k, word) ==
    IF k > Len(s)
    THEN IF word = <<>> THEN <<>> ELSE <<word>>
    ELSE IF IsSpace(s[k])
         THEN (IF word = <<>> THEN <<>> ELSE <<word>>) \o SplitFrom(s, k + 1, <<>>)
         ELSE SplitFrom(s, k + 1, Append(word, s[k]))

Split(s) == SplitFrom(s, 1, <<>>)

\* list.index(x): zero-based position of the first element equal to x.
IndexOf(seq, x) == (CHOOSE k \in 1..Len(seq) : seq[k] = x /\ \A j \in 1..(k - 1) : seq[j] # x) - 1

\* ------------------------------------------------------------ the catalogue
Chess == <<"C", "h", "e", "s", "s">>
Go == <<"G", "o">>
ChessClub == <<"c", "h", "e", "s", "s", " ", "c", "l", "u", "b">>
GoClub == <<"G", "o", " ", "C", "l", "u", "b">>
ArtClub == <<"A", "r", "t">>

\* FAVORITES settings the model starts from (after load_config's split/strip).
FavoriteLists == {<<>>, <<Chess>>, <<Chess, Go>>}

\* An activity entry of a rendered page, as find_matches reads it:
\*   club_name       what extract_club_name returns for its inner_text (or None)
\*   is_available    what check_availability returns for its text and markup
\*   signup_element  whether _find_signup_element finds a visible control
\*   raises          whether reading the entry raises (detached node, timeout)
Entry(n, a, b, r) == [club_name |-> n, is_available |-> a, signup_element |-> b, raises |-> r]

EntryCatalogue ==
    { Entry(ChessClub, TRUE, TRUE, FALSE),
      Entry(GoClub, TRUE, TRUE, FALSE),
      Entry(GoClub, FALSE, TRUE, FALSE),
      Entry(ChessClub, TRUE, FALSE, FALSE),
      Entry(ArtClub, TRUE, TRUE, FALSE),
      Entry(ChessClub, TRUE, TRUE, TRUE),
      Entry(None, TRUE, TRUE, FALSE) }

\* The renderings a page can have in the model: no entry, one entry of the
\* catalogue, or two of them in either order of priority.
PageContents ==
    {<<>>}
    \cup {<<e>> : e \in EntryCatalogue}
    \cup {<<Entry(GoClub, TRUE, TRUE, FALSE), Entry(ChessClub, TRUE, TRUE, FALSE)>>,
          <<Entry(ChessClub, TRUE, TRUE, FALSE), Entry(GoClub, TRUE, TRUE, FALSE)>>,
          <<Entry(ChessClub, TRUE, TRUE, TRUE), Entry(GoClub, TRUE, TRUE, FALSE)>>,
          <<Entry(ArtClub, TRUE, TRUE, FALSE), Entry(ChessClub, TRUE, TRUE, FALSE)>>}

\* ------------------------------------------------------------------ Config
\* A validation that forgets the favorites list.
Validate_CredentialsOnly(cfg) ==
    (IF cfg.username = "" THEN {"USERNAME"} ELSE {})
    \cup (IF cfg.password = "" THEN {"PASSWORD"} ELSE {})

\* Config.validate: the names of the missing required settings.
Validate(cfg) ==
    (IF cfg.username = "" THEN {"USERNAME"} ELSE {})
    \cup (IF cfg.password = "" THEN {"PASSWORD"} ELSE {})
    \cup (IF cfg.favorites = <<>> THEN {"FAVORITES"} ELSE {})

\* load_config's FAVORITES: the comma-separated items, trimmed, the empty ones
\* dropped.
LoadFavorites(favorites_str) ==
    LET items == SplitOn(favorites_str, ",")
    IN  SelectSeq([k \in DOMAIN items |-> Strip(items[k])], LAMBDA club : club # <<>>)

\* -------------------------------------------------------------- ClubMatcher
\* The containment tests without the test on the favorite's words.
FavoriteHits_WholeOnly(favorite, club_name) ==
    \/ Contains(Lower(club_name), Lower(favorite))
    \/ Contains(Lower(favorite), Lower(club_name))

\* The three containment tests of check_favorite_match for one favorite.
FavoriteHits(favorite, club_name) ==
    \/ Contains(Lower(club_name), Lower(favorite))
    \/ Contains(Lower(favorite), Lower(club_name))
    \/ \E w \in 1..Len(Split(favorite)) :
          /\ Len(Split(favorite)[w]) > 3
          /\ Contains(Lower(club_name), Lower(Split(favorite)[w]))

\* check_favorite_match: the first favorite in list order that hits, or None.
CheckFavoriteMatch(favorites, club_name) ==
    IF \E k \in 1..Len(favorites) : FavoriteHits(favorites[k], club_name)
    THEN favorites[CHOOSE k \in 1..Len(favorites) :
                      /\ FavoriteHits(favorites[k], club_name)
                      /\ \A j \in 1..(k - 1) : ~FavoriteHits(favorites[j], club_name)]
    ELSE None

\* The status vocabulary extract_club_name skips.
StatusWords == {Chars("signups"), Chars("capacity"), Chars("room"), Chars("sponsor")}

\* The trimmed non-empty lines of an entry's text.
Lines(text) ==
    LET raw == SplitOn(text, "\n")
    IN  SelectSeq([k \in DOMAIN raw |-> Strip(raw[k])], LAMBDA line : line # <<>>)

\* A status line: one that contains a status word, whatever its case.
IsStatusLine(line) == \E word \in StatusWords : Contains(Lower(line), word)

\* The line tests of extract_club_name's loop.
IsClubNameLine(line) == ~IsStatusLine(line) /\ Len(line) > 5 /\ ~IsDigitStr(line)

\* An extraction without the fall-back to the first line.
ExtractClubName_NoFallback(text) ==
    LET lines == Lines(text)
    IN  IF \E k \in DOMAIN lines : IsClubNameLine(lines[k])
        THEN lines[CHOOSE k \in DOMAIN lines :
                      /\ IsClubNameLine(lines[k])
                      /\ \A j \in 1..(k - 1) : ~IsClubNameLine(lines[j])]
        ELSE None

\* extract_club_name
ExtractClubName(text) ==
    LET lines == Lines(text)
    IN  IF \E k \in DOMAIN lines : IsClubNameLine(lines[k])
        THEN lines[CHOOSE k \in DOMAIN lines :
                      /\ IsClubNameLine(lines[k])
                      /\ \A j \in 1..(k - 1) : ~IsClubNameLine(lines[j])]
        ELSE IF lines # <<>> THEN lines[1] ELSE None

\* The literal patterns of unavailable_patterns.
UnavailableWords ==
    {Chars("full"), Chars("closed"), Chars("waitlist"), Chars("cancelled"), Chars("disabled")}

\* re.search(r'0/\d+', s): a zero, a slash and a digit, anywhere in s.
SearchZeroOf(s) ==
    \E k \in 1..(Len(s) - 2) : s[k] = "0" /\ s[k + 1] = "/" /\ IsDigit(s[k + 2])

\* re.search(r'(\d+)/\1', s): a run of digits, a slash and the same run again,
\* anywhere in s.
SearchSameCount(s) ==
    \E a \in DOMAIN s : \E b \in a..Len(s) :
        /\ \A k \in a..b : IsDigit(s[k])
        /\ 2 * b - a + 2 <= Len(s)
        /\ s[b + 1] = "/"
        /\ SubSeq(s, b + 2, 2 * b - a + 2) = SubSeq(s, a, b)

\* re.search(r'no\s+space', s)
SearchNoSpace(s) ==
    \E k \in DOMAIN s : \E n \in 1..Len(s) :
        /\ k + n + 6 <= Len(s)
        /\ SubSeq(s, k, k + 1) = Chars("no")
        /\ \A j \in (k + 2)..(k + 1 + n) : IsSpace(s[j])
        /\ SubSeq(s, k + 2 + n, k + 6 + n) = Chars("space")

\* check_availability
CheckAvailability(text, html) ==
    LET combined_text == Lower(text \o <<" ">> \o html)
    IN  ~ \/ \E word \in UnavailableWords : Contains(combined_text, word)
          \/ SearchZeroOf(combined_text)
          \/ SearchSameCount(combined_text)
          \/ SearchNoSpace(combined_text)

\* A match whose priority counts the favorites from one.
MatchOf_OneBased(favorites, e) ==
    [name |-> e.club_name,
     favorite |-> CheckFavoriteMatch(favorites, e.club_name),
     priority |-> IndexOf(favorites, CheckFavoriteMatch(favorites, e.club_name)) + 1]

\* signup_selectors of _find_signup_element, in the order they are tried.
SignupSelectors ==
    <<"button:has-text(\"Sign up\")", "a:has-text(\"Sign up\")", "input[value*=\"Sign up\"]",
      "button:has-text(\"Join\")", "a:has-text(\"Join\")", ".signup-button", ".btn-signup">>

\* _find_signup_element: the first selector of the list whose element is
\* visible, as a one-element sequence, or None.
FindSignupElement(visible) ==
    IF \E k \in DOMAIN SignupSelectors : SignupSelectors[k] \in visible
    THEN <<SignupSelectors[CHOOSE k \in DOMAIN SignupSelectors :
                              /\ SignupSelectors[k] \in visible
                              /\ \A j \in 1..(k - 1) : SignupSelectors[j] \notin visible]>>
    ELSE None

\* The match find_matches appends for an entry that passed every filter.
MatchOf(favorites, e) ==
    [name |-> e.club_name,
     favorite |-> CheckFavoriteMatch(favorites, e.club_name),
     priority |-> IndexOf(favorites, CheckFavoriteMatch(favorites, e.club_name))]

\* A filter chain that keeps an entry without a signup control.
EntryMatches_NoControl(favorites, e) ==
    /\ ~e.raises
    /\ e.club_name # None
    /\ CheckFavoriteMatch(favorites, e.club_name) # None
    /\ e.is_available

\* The per-entry filter chain of find_matches (each failed test is a `continue`,
\* an exception anywhere in the entry's processing skips the entry).
EntryMatches(favorites, e) ==
    /\ ~e.raises
    /\ e.club_name # None
    /\ CheckFavoriteMatch(favorites, e.club_name) # None
    /\ e.is_available
    /\ e.signup_element

\* A scan that an entry's exception ends: the entries after it are not read.
RECURSIVE CollectMatches_AbortOnRaise(_, _, _)
CollectMatches_AbortOnRaise(favorites, activities, k) ==
    IF k > Len(activities) \/ k > MaxExamined \/ activities[k].raises
    THEN <<>>
    ELSE (IF EntryMatches(favorites, activities[k])
          THEN <<MatchOf(favorites, activities[k])>>
          ELSE <<>>) \o CollectMatches_AbortOnRaise(favorites, activities, k + 1)

RECURSIVE CollectMatches(_, _, _)
CollectMatches(favorites, activities, k) ==
    IF k > Len(activities) \/ k > MaxExamined
    THEN <<>>
    ELSE (IF EntryMatches(favorites, activities[k])
          THEN <<MatchOf(favorites, activities[k])>>
          ELSE <<>>) \o CollectMatches(favorites, activities, k + 1)

\* A find_matches that returns the matches in page order.
SortByPriority_PageOrder(ms, p, top) == ms

\* A sort that hands the matches back in the reverse of page order.
SortByPriority_Reversed(ms, p, top) == [k \in 1..Len(ms) |-> ms[Len(ms) + 1 - k]]

\* list.sort(key=priority): stable, ascending.
RECURSIVE SortByPriority(_, _, _)
SortByPriority(ms, p, top) ==
    IF p > top
    THEN <<>>
    ELSE SelectSeq(ms, LAMBDA m : m.priority = p) \o SortByPriority(ms, p + 1, top)

\* ClubMatcher.find_matches
FindMatches(favorites, activities) ==
    SortByPriority(CollectMatches(favorites, activities, 1), 0, Len(favorites))

\* What find_matches can return for a page, per favorites list: its value on
\* every rendering the page can have.
MatchResults == [f \in FavoriteLists |-> {FindMatches(f, c) : c \in PageContents}]

\* ---------------------------------------------------------------- the site
\* page.url, abstracted to what the code reads from it.  kind is one of
\*   "blank"      a fresh page, or one whose navigation raised
\*   "target"     the configured signup page number `page`
\*   "home"       https://ion.tjhsst.edu/eighth/ or the post-login landing
\*   "login"      the login page (a redirect to it included)
\*   "twofactor"  the second-factor challenge
\*   "other"      any other page outside the authenticated area (the login
\*                form shown again after a rejected password included)
\*   "result"     the page a signup click led to; "result_ok" when its URL
\*                carries "success" or "signed-up"
Url(kind, page) == [kind |-> kind, page |-> page]
Blank == Url("blank", 0)
Target(n) == Url("target", n)

\* "login" in page.url.lower()
HasLogin(url) == url.kind = "login"
\* "two-factor" in page.url.lower()
HasTwoFactor(url) == url.kind = "twofactor"
\* A marker test that every URL passes.
HasAreaMarker_Any(url) == TRUE

\* "eighth" in page.url.lower() or "dashboard" in page.url.lower()
HasAreaMarker(url) == url.kind \in {"target", "home"}

\* ------------------------------------------------------------ Authenticator
\* The steps of authenticate at which the browser can raise.
AuthSteps == {"probe", "login_goto", "fill", "submit", "wait", "otp_check", "save"}

\* What the site and the browser answer during one authenticate call:
\*   probe  where the navigation to the known authenticated URL lands
\*   login  where the browser is after the credentials were submitted
\*   otp    whether a one-time-code input is visible on that page
\*   fault  the step that raises (if the call gets that far), or "none"
\*   kind   what is raised there: PlaywrightTimeoutError or another Exception
AuthAnswers ==
    [probe : {"home", "login"},
     login : {"home", "twofactor", "other"},
     otp : BOOLEAN,
     fault : AuthSteps \cup {"none"},
     kind : {"timeout", "error"}]

\* A handler that lets everything but a timeout through.
Catches_TimeoutOnly(kind) == kind = "timeout"

\* The except clauses of authenticate (lines 66-71): PlaywrightTimeoutError,
\* then Exception.
Catches(kind) == kind \in {"timeout", "error"}

\* What one authenticate call saw of the site, step by step; "none" for a step
\* it did not reach.
\*   probe  "home"/"login": where the probe landed; "fault": it raised
\*   login  where the credential login landed; "fault": a step up to the wait raised
\*   otp    "yes"/"no": whether a one-time-code input was visible; "fault"
\*   save   "done": storage_state wrote the session file; "fault": it raised
NotSeen == [probe |-> "none", login |-> "none", otp |-> "none", save |-> "none"]

\* authenticate ends on an exception at some step.  The call returns False when
\* a clause catches it, else the exception leaves authenticate.
Faulted(kind, url, session, seen) ==
    [ok |-> FALSE, raised |-> ~Catches(kind), url |-> url, session |-> session, seen |-> seen]

\* authenticate returns False (lines 54 and 64).
Failed(url, session, seen) ==
    [ok |-> FALSE, raised |-> FALSE, url |-> url, session |-> session, seen |-> seen]

\* A login that sees the second-factor challenge and goes on to the marker test.
Login_ChallengeNotFatal(session, ans, from, seen) ==
    LET landed == Url(ans.login, 0)
        s1 == [seen EXCEPT !.login = ans.login,
                           !.otp = IF HasTwoFactor(landed) THEN "none"
                                   ELSE IF ans.otp THEN "yes" ELSE "no"]
    IN  IF ans.fault \in {"login_goto", "fill", "submit", "wait"}
        THEN Faulted(ans.kind, IF ans.fault = "login_goto" THEN from ELSE Url("login", 0),
                     session, [seen EXCEPT !.login = "fault"])
        ELSE IF ~HasTwoFactor(landed) /\ ans.fault = "otp_check"
        THEN Faulted(ans.kind, landed, session, [s1 EXCEPT !.otp = "fault"])
        ELSE IF HasAreaMarker(landed)
        THEN IF ans.fault = "save"
             THEN Faulted(ans.kind, landed, session, [s1 EXCEPT !.save = "fault"])
             ELSE [ok |-> TRUE, raised |-> FALSE, url |-> landed, session |-> TRUE,
                   seen |-> [s1 EXCEPT !.save = "done"]]
        ELSE Failed(landed, session, s1)

\* The credential login of authenticate (lines 32-64), entered with the browser
\* on `from`: navigate to the login page, fill and submit the form, wait, test
\* for a second-factor challenge, then for an authenticated-area marker, and
\* save the session.  storage_state raises before it opens the file (the
\* browser no longer answers), so a failed save leaves the file as it was.
Login(session, ans, from, seen) ==
    LET landed == Url(ans.login, 0)
        s1 == [seen EXCEPT !.login = ans.login]
    IN  IF ans.fault \in {"login_goto", "fill", "submit", "wait"}
        THEN Faulted(ans.kind, IF ans.fault = "login_goto" THEN from ELSE Url("login", 0),
                     session, [seen EXCEPT !.login = "fault"])
        ELSE IF HasTwoFactor(landed)
        THEN Failed(landed, session, s1)
        ELSE IF ans.fault = "otp_check"
        THEN Faulted(ans.kind, landed, session, [s1 EXCEPT !.otp = "fault"])
        ELSE IF ans.otp
        THEN Failed(landed, session, [s1 EXCEPT !.otp = "yes"])
        ELSE IF HasAreaMarker(landed)
        THEN IF ans.fault = "save"
             THEN Faulted(ans.kind, landed, session, [s1 EXCEPT !.otp = "no", !.save = "fault"])
             ELSE [ok |-> TRUE, raised |-> FALSE, url |-> landed, session |-> TRUE,
                   seen |-> [s1 EXCEPT !.otp = "no", !.save = "done"]]
        ELSE Failed(landed, session, [s1 EXCEPT !.otp = "no"])

\* An authenticate that logs in again whatever the probe shows.
Authenticate_AlwaysLogin(session, ans, from) ==
    IF session
    THEN IF ans.fault = "probe"
         THEN Faulted(ans.kind, from, session, [NotSeen EXCEPT !.probe = "fault"])
         ELSE Login(session, ans, Url(ans.probe, 0), [NotSeen EXCEPT !.probe = ans.probe])
    ELSE Login(session, ans, from, NotSeen)

\* IonAuthenticator.authenticate, called with the browser on `from`: the
\* returned boolean (or the exception that leaves it), the page's URL when it
\* ends, whether a session file exists afterwards, and what it saw.
Authenticate(session, ans, from) ==
    IF session
    THEN IF ans.fault = "probe"
         THEN Faulted(ans.kind, from, session, [NotSeen EXCEPT !.probe = "fault"])
         ELSE IF ~HasLogin(Url(ans.probe, 0))
         THEN [ok |-> TRUE, raised |-> FALSE, url |-> Url(ans.probe, 0), session |-> session,
               seen |-> [NotSeen EXCEPT !.probe = ans.probe]]
         ELSE Login(session, ans, Url(ans.probe, 0), [NotSeen EXCEPT !.probe = ans.probe])
    ELSE Login(session, ans, from, NotSeen)

\* What the callers keep of an authenticate call: what it saw and how it ended.
AuthRecord(a) ==
    [seen |-> a.seen,
     ok |-> IF a.raised THEN "raised" ELSE IF a.ok THEN "True" ELSE "False"]

\* No authenticate call was made.
NoAuth == [seen |-> NotSeen, ok |-> "none"]

\* The outcome of an authenticate call that handle_session_expiry made.
Reauthenticated(a) ==
    [ok |-> a.ok, raised |-> a.raised, url |-> a.url, session |-> a.session,
     seen |-> a.seen, auth |-> AuthRecord(a)]

\* A recovery that authenticates again on every page.
HandleSessionExpiry_Always(session, url, ans) ==
    Reauthenticated(Authenticate(session, ans, url))

\* IonAuthenticator.handle_session_expiry: what it returns, where it leaves the
\* browser and the session file, and the authenticate call it made (if any).
HandleSessionExpiry(session, url, ans) ==
    IF HasLogin(url)
    THEN Reauthenticated(Authenticate(session, ans, url))
    ELSE [ok |-> TRUE, raised |-> FALSE, url |-> url, session |-> session, seen |-> NotSeen,
          auth |-> NoAuth]

\* Whether the session file, after a call of authenticate, holds a session that
\* was found redirected to the login page: one found so before (stale) or by
\* this call (found), unless the call wrote a new one.
StaleAfter(stale, found, a) ==
    a.session /\ a.seen.save # "done" /\ (stale \/ found \/ a.seen.probe = "login")

\* ------------------------------------------------------ result classification
\* The page a signup click (and confirmation) led to, as detect_signup_result
\* reads it.
ResultPages ==
    [success_el : BOOLEAN, error_el : BOOLEAN, url_success : BOOLEAN,
     text_success : BOOLEAN, text_error : BOOLEAN]

\* A classification that looks at the URL before the styled elements.
DetectSignupResult_UrlFirst(p) ==
    IF p.url_success THEN "True"
    ELSE IF p.success_el THEN "True"
    ELSE IF p.error_el THEN "False"
    ELSE IF p.text_success THEN "True"
    ELSE IF p.text_error THEN "False"
    ELSE "None"

\* BaseMonitor.detect_signup_result: Python's True, False or None.
DetectSignupResult(p) ==
    IF p.success_el THEN "True"
    ELSE IF p.error_el THEN "False"
    ELSE IF p.url_success THEN "True"
    ELSE IF p.text_success THEN "True"
    ELSE IF p.text_error THEN "False"
    ELSE "None"

\* A classification that dismisses the styled message it has read.
ClassifyPage_Dismissing(p) ==
    [value |-> DetectSignupResult(p),
     page |-> [p EXCEPT !.success_el = FALSE,
                        !.error_el = IF p.success_el THEN p.error_el ELSE FALSE]]

\* A call of detect_signup_result on a page: its value, and the page after the
\* call.  The function only reads (is_visible, inner_text, url, content).
ClassifyPage(p) == [value |-> DetectSignupResult(p), page |-> p]

\* A test that takes every result but an explicit False for a success.
Truthy_NotFalse(v) == v # "False"

\* `if success:` in attempt_signup and in run_monitoring_cycle.
Truthy(v) == v = "True"

\* ----------------------------------------------------------------- notifier
\* A send_sms that lets a transport error through.
SendSms_Propagates(configured, transport) ==
    IF ~configured THEN "False"
    ELSE IF transport = "ok" THEN "True" ELSE "raised"

\* SMSNotifier.send_sms: False without an address or a target, True when the
\* SMTP exchange went through, False when any step of it raised.
SendSms(configured, transport) ==
    IF ~configured THEN "False"
    ELSE IF transport = "ok" THEN "True" ELSE "False"

\* What a call of send_sms can meet: whether the notifier has an address and a
\* target (settings the model's Config does not carry), and the transport.
SendAnswers == [configured : BOOLEAN, transport : {"ok", "raises"}]

\* What monitor_page did on a page: where the navigation landed ("none" when
\* it raised), how many times it called handle_session_expiry, and the step
\* that raised ("nav", "scan") if one did.
NoPage == [landed |-> "none", expiry |-> 0, fault |-> "none"]

\* -------------------------------------------------------------------- state
VARIABLES
    config,            \* the Config object: username, password, favorites, auto_signup_enabled
    pc,                \* where the single thread of control is
    cycle_count,       \* run_continuous's cycle_count
    previous_signups,  \* BaseMonitor.previous_signups
    session_file,      \* whether ion_session.json exists
    session_stale,     \* whether it holds a session that was found redirected to login
    browsers,          \* browsers launched and not yet closed
    page_url,          \* page.url of the cycle's page
    i,                 \* index of the configured page being processed (1-based)
    matches,           \* what monitor_page returned for page i
    all_matches,       \* the cycle's running total
    result,            \* how the last cycle ended: "none", "True", "False", "raised"
    \* history of the current cycle, kept for the properties
    auth_result,       \* what the cycle's initial authenticate returned, "none" before
    last_auth,         \* the latest authenticate call: what it saw, how it ended
    result_page,       \* <<the page attempt_signup classified>> in the step just taken, else <<>>
    log_signup,        \* whether run_continuous logged "Successful signup completed" for the cycle
    last_send,         \* what the cycle's latest send_sms call returned, "none" before any
    page_log,          \* what monitor_page did on the page being processed
    navs,              \* configured pages navigated to, in order
    attempted,         \* attempt_signup calls: the club name and the page of each
    last_outcome,      \* how the latest attempt_signup call ended, "none" before any
    successes,         \* attempt_signup calls that were classified Success
    reauthed,          \* whether monitor_page re-authenticated on page i
    recovery_failed,   \* pages whose session-expiry recovery failed
    notified,          \* notifications dispatched: [kind, clubs]
    attempt_fault,     \* the step of the latest attempt_signup call that raised, "none" otherwise
    slept_after,       \* pages after which the rate-limit sleep ran
    calc,              \* the last call of a matcher or loader function: its
                       \* name, its arguments and its value
    \* the HTTP monitor (monitors/http_monitor.py), a program of its own
    web_pc,            \* where WebpageMonitor's thread of control is
    web_favorites,     \* WebpageMonitor.favorites
    web_cycles,        \* monitor_once calls made so far
    web_i,             \* index of the URL monitor_once is checking (1-based)
    previous_state,    \* WebpageMonitor.previous_state: url_key -> names recorded
    all_new_opportunities, \* monitor_once's list of the same name
    web_sent,          \* club names of the notification the call just sent, <<>> if none
    last_check,        \* the check of a URL just made: page, kind, available, reported
    recorded           \* per URL, the available favorites found by its latest successful check

vars == <<config, pc, cycle_count, previous_signups, session_file, session_stale, browsers,
          page_url, i, matches, all_matches, result, auth_result, last_auth, result_page,
          log_signup, last_send, page_log, navs, attempted, last_outcome, successes, reauthed,
          recovery_failed, notified, attempt_fault,
          slept_after, calc, web_pc, web_favorites, web_cycles, web_i, previous_state,
          all_new_opportunities, web_sent, last_check, recorded>>

cycle_history == <<auth_result, last_auth, result_page, log_signup, last_send, page_log, navs, attempted, last_outcome, successes,
                   reauthed, recovery_failed, notified, attempt_fault, slept_after>>

\* Where control can stand.  "main": run_monitor.main before validation;
\* "run_continuous": at the top of run_continuous; "loop": at the top of its
\* while loop; "authenticate" .. "summary": inside run_monitoring_cycle;
\* "cycle_returned": back in run_continuous with the cycle's value;
\* "sleep600"/"sleep120": in run_continuous's sleeps; "exit_config":
\* sys.exit(1) of main; "returned": run_continuous's early return;
\* "interrupted": ended by KeyboardInterrupt.
InCycle == {"authenticate", "monitor_page", "matches", "attempt_signup", "rate_limit", "summary"}
InLoop == InCycle \cup {"loop", "cycle_returned", "sleep600", "sleep120"}

\* No function call recorded.
NoCalc == [op |-> "none"]

\* URLs the HTTP monitor is configured with (URL_START..URL_END).
NumUrls == 2

\* monitor_once calls of a run of the HTTP monitor.
MaxChecks == 3

\* The HTTP monitor's variables.
web == <<web_pc, web_favorites, web_cycles, web_i, previous_state, all_new_opportunities,
         web_sent, last_check, recorded>>

\* No URL checked in the step just taken.
NoCheck == [page |-> 0, kind |-> "none", available |-> {}, reported |-> {}]

\* Config.load_config, for the settings the monitor reads.
Configs ==
    [username : {"", "user"}, password : {"", "secret"},
     favorites : FavoriteLists, auto_signup_enabled : BOOLEAN]

Init ==
    /\ config \in Configs
    /\ pc = "main"
    /\ cycle_count = 0
    /\ previous_signups = {}
    /\ session_file \in BOOLEAN
    /\ session_stale = FALSE
    /\ browsers = 0
    /\ page_url = Blank
    /\ i = 0
    /\ matches = <<>>
    /\ all_matches = <<>>
    /\ result = "none"
    /\ auth_result = "none"
    /\ last_auth = NoAuth
    /\ result_page = <<>>
    /\ log_signup = FALSE
    /\ last_send = "none"
    /\ page_log = NoPage
    /\ navs = <<>>
    /\ attempted = <<>>
    /\ last_outcome = "none"
    /\ successes = 0
    /\ reauthed = FALSE
    /\ recovery_failed = {}
    /\ notified = <<>>
    /\ slept_after = {}
    /\ attempt_fault = "none"
    /\ calc = NoCalc
    /\ web_pc = "main"
    /\ web_favorites = <<>>
    /\ web_cycles = 0
    /\ web_i = 0
    /\ previous_state = [key \in {} |-> {}]
    /\ all_new_opportunities = <<>>
    /\ web_sent = <<>>
    /\ last_check = NoCheck
    /\ recorded = [k \in 1..NumUrls |-> {}]

\* ------------------------------------------------------------------ actions
\* scripts/run_monitor.py main: load and validate the configuration, build the
\* notifier and the monitor, call run_continuous.
Main ==
    /\ pc = "main"
    /\ pc' = IF Validate(config) # {} THEN "exit_config" ELSE "run_continuous"
    /\ UNCHANGED <<calc, web, config, cycle_count, previous_signups, session_file, session_stale,
                   browsers, page_url, i, matches, all_matches, result, cycle_history>>

\* BaseMonitor.run_continuous up to its loop: validate again, cycle_count = 0.
RunContinuous ==
    /\ pc = "run_continuous"
    /\ pc' = IF Validate(config) # {} THEN "returned" ELSE "loop"
    /\ cycle_count' = 0
    /\ UNCHANGED <<calc, web, config, previous_signups, session_file, session_stale, browsers, page_url,
                   i, matches, all_matches, result, cycle_history>>

\* The ways control leaves run_monitoring_cycle once the browser is launched:
\* the context or the page could not be created (lines 103-109, before the
\* try), authentication failed (115), a step raised inside the try, a signup
\* succeeded (139), the pages were all processed (149), Ctrl-C.
CycleExits == {"setup_raised", "auth_failed", "raised", "success", "completed", "interrupted"}

\* A cycle that closes the browser at the end of the function body only: the
\* early returns and the exceptions leave it open.
BrowsersAfter_CloseAtEnd(n, exit) == IF exit = "completed" THEN n - 1 ELSE n

\* run_monitoring_cycle lines 99 and 150-152: the browsers still open once
\* control has left the cycle by `exit`, of n open before.  Inside the try
\* every exit runs `finally: browser.close()`; before the try the browser goes
\* down with the Playwright driver when the `with sync_playwright()` block is
\* left.
BrowsersAfter(n, exit) == IF exit \in CycleExits THEN n - 1 ELSE n

\* Top of the while loop and the head of run_monitoring_cycle: count the cycle,
\* launch the browser, create the context (from the session file when there is
\* one) and the page.  A failure to launch, or to create the context or the
\* page, raises into run_continuous.
StartCycle ==
    /\ pc = "loop"
    /\ cycle_count < MaxCycles
    /\ cycle_count' = cycle_count + 1
    /\ auth_result' = "none"
    /\ last_auth' = NoAuth
    /\ result_page' = <<>>
    /\ log_signup' = FALSE
    /\ last_send' = "none"
    /\ page_log' = NoPage
    /\ navs' = <<>>
    /\ attempted' = <<>>
    /\ last_outcome' = "none"
    /\ successes' = 0
    /\ reauthed' = FALSE
    /\ recovery_failed' = {}
    /\ notified' = <<>>
    /\ slept_after' = {}
    /\ matches' = <<>>
    /\ all_matches' = <<>>
    /\ i' = 0
    /\ page_url' = Blank
    /\ \E launched \in {"ok", "launch_raised", "setup_raised"} :
          IF launched = "ok"
          THEN /\ browsers' = browsers + 1
               /\ pc' = "authenticate"
               /\ result' = "none"
          ELSE /\ browsers' = IF launched = "setup_raised"
                              THEN BrowsersAfter(browsers + 1, "setup_raised")
                              ELSE browsers
               /\ pc' = "sleep120"
               /\ result' = "raised"
    /\ UNCHANGED <<calc, web, attempt_fault, config, previous_signups, session_file, session_stale>>

\* A cycle that goes on to the pages whatever authenticate returned.
AfterAuthenticate_Ignore(ok) == "monitor_page"

\* run_monitoring_cycle lines 113-115: a failed authenticate ends the cycle.
AfterAuthenticate(ok) == IF ok THEN "monitor_page" ELSE "cycle_returned"

\* run_monitoring_cycle lines 111-117: the initial authenticate; on failure the
\* cycle returns False (the finally clause closes the browser).  An exception
\* that left authenticate would leave the cycle too, into run_continuous.
CycleAuthenticate ==
    /\ pc = "authenticate"
    /\ \E a \in {Authenticate(session_file, ans, page_url) : ans \in AuthAnswers} :
          /\ page_url' = a.url
          /\ session_file' = a.session
          /\ session_stale' = StaleAfter(session_stale, FALSE, a)
          /\ last_auth' = AuthRecord(a)
          /\ auth_result' = AuthRecord(a).ok
          /\ IF a.raised
             THEN /\ pc' = "sleep120"
                  /\ result' = "raised"
                  /\ browsers' = BrowsersAfter(browsers, "raised")
                  /\ UNCHANGED i
             ELSE /\ pc' = AfterAuthenticate(a.ok)
                  /\ IF AfterAuthenticate(a.ok) = "monitor_page"
                     THEN /\ i' = 1
                          /\ UNCHANGED <<browsers, result>>
                     ELSE /\ result' = "False"
                          /\ browsers' = BrowsersAfter(browsers, "auth_failed")
                          /\ UNCHANGED i
    /\ all_matches' = <<>>
    /\ UNCHANGED <<calc, web, attempt_fault, config, last_send, page_log, cycle_count, previous_signups, matches, result_page, log_signup,
                   navs, attempted, last_outcome, successes, reauthed, recovery_failed,
                   notified, slept_after>>

\* What handle_session_expiry can return after a navigation of monitor_page,
\* per state of the session file and page the navigation landed on: its value
\* on every answer the site can give.
ExpiryResults ==
    [session \in BOOLEAN, landed \in {Target(p) : p \in 1..NumPages} \cup {Url("login", 0)} |->
        {HandleSessionExpiry(session, landed, ans) : ans \in AuthAnswers}]

\* A monitor_page that scans the page whatever handle_session_expiry returned.
PageMatches_IgnoreExpiry(ok, scan_raises, found) == IF ~scan_raises THEN found ELSE <<>>

\* A monitor_page that returns what the scan had found when it raised.
PageMatches_KeepOnRaise(ok, scan_raises, found) == IF ok THEN found ELSE <<>>

\* monitor_page lines 77-95: [] when recovery failed or the scan raised, else
\* what find_matches found.
PageMatches(ok, scan_raises, found) == IF ok /\ ~scan_raises THEN found ELSE <<>>

\* PlaywrightMonitor.monitor_page, with the handle_session_expiry (and through it
\* the authenticate) it calls: navigate to page i, recover from a redirect to
\* login, run find_matches on the page the browser is then on.  Any exception
\* (navigation timeout, a failing scan) makes it return [].
MonitorPage ==
    /\ pc = "monitor_page"
    /\ navs' = Append(navs, i)
    /\ \E nav \in {"ok", "login", "timeout"} :
          IF nav = "timeout"
          THEN /\ page_url' = Blank
               /\ matches' = <<>>
               /\ reauthed' = FALSE
               /\ last_auth' = NoAuth
               /\ page_log' = [landed |-> "none", expiry |-> 0, fault |-> "nav"]
               /\ UNCHANGED <<session_file, session_stale, recovery_failed>>
          ELSE LET landed == IF nav = "ok" THEN Target(i) ELSE Url("login", 0) IN
               \E h \in ExpiryResults[session_file, landed] :
                  /\ page_url' = h.url
                  /\ session_file' = h.session
                  /\ session_stale' = IF HasLogin(landed)
                                      THEN StaleAfter(session_stale, TRUE, h)
                                      ELSE session_stale
                  /\ last_auth' = h.auth
                  /\ reauthed' = (HasLogin(landed) /\ h.ok)
                  /\ recovery_failed' = IF h.ok THEN recovery_failed
                                        ELSE recovery_failed \cup {i}
                  /\ \E found \in MatchResults[config.favorites], scan_raises \in BOOLEAN :
                        /\ matches' = PageMatches(h.ok, scan_raises, found)
                        /\ page_log' = [landed |-> landed.kind, expiry |-> 1,
                                        fault |-> IF h.ok /\ scan_raises THEN "scan"
                                                  ELSE "none"]
    /\ pc' = "matches"
    /\ result_page' = <<>>
    /\ UNCHANGED <<calc, web, attempt_fault, config, last_send, cycle_count, previous_signups, browsers, i, all_matches,
                   result, auth_result, log_signup, attempted, last_outcome, successes,
                   notified, slept_after>>

\* A cycle that never consults previous_signups.
AlreadySignedUp_Never(name, signups) == FALSE

\* run_monitoring_cycle line 131: `best_match['name'] in self.previous_signups`.
AlreadySignedUp(name, signups) == name \in signups

\* A cycle that attempts the best match whatever AUTO_SIGNUP says.
ProcessMatches_IgnoreSwitch ==
    /\ pc = "matches"
    /\ IF matches = <<>>
       THEN /\ pc' = "rate_limit"
            /\ UNCHANGED <<all_matches, i>>
       ELSE /\ all_matches' = all_matches \o matches
            /\ IF AlreadySignedUp(matches[1].name, previous_signups)
               THEN IF i < NumPages
                    THEN /\ pc' = "monitor_page"
                         /\ i' = i + 1
                    ELSE /\ pc' = "summary"
                         /\ UNCHANGED i
               ELSE /\ pc' = "attempt_signup"
                    /\ UNCHANGED i
    /\ UNCHANGED <<calc, web, config, cycle_count, previous_signups, session_file, session_stale,
                   browsers, page_url, matches, result, cycle_history>>

\* A cycle that forgets the matches of a page whose best match it skips.
ProcessMatches_DropSkipped ==
    /\ pc = "matches"
    /\ IF matches = <<>>
       THEN /\ pc' = "rate_limit"
            /\ UNCHANGED <<all_matches, i>>
       ELSE IF ~config.auto_signup_enabled
       THEN /\ all_matches' = all_matches \o matches
            /\ pc' = "rate_limit"
            /\ UNCHANGED i
       ELSE IF AlreadySignedUp(matches[1].name, previous_signups)
       THEN /\ UNCHANGED all_matches
            /\ IF i < NumPages
               THEN /\ pc' = "monitor_page"
                    /\ i' = i + 1
               ELSE /\ pc' = "summary"
                    /\ UNCHANGED i
       ELSE /\ all_matches' = all_matches \o matches
            /\ pc' = "attempt_signup"
            /\ UNCHANGED i
    /\ UNCHANGED <<calc, web, config, cycle_count, previous_signups, session_file, session_stale,
                   browsers, page_url, matches, result, cycle_history>>

\* run_monitoring_cycle lines 123-133: accumulate the page's matches and decide
\* whether its best match is to be attempted.  The `continue` of line 133 goes
\* straight to the next page (or out of the loop after the last one).
ProcessMatches ==
    /\ pc = "matches"
    /\ IF matches = <<>>
       THEN /\ pc' = "rate_limit"
            /\ UNCHANGED <<all_matches, i>>
       ELSE /\ all_matches' = all_matches \o matches
            /\ IF ~config.auto_signup_enabled
               THEN /\ pc' = "rate_limit"
                    /\ UNCHANGED i
               ELSE IF AlreadySignedUp(matches[1].name, previous_signups)
               THEN IF i < NumPages
                    THEN /\ pc' = "monitor_page"
                         /\ i' = i + 1
                    ELSE /\ pc' = "summary"
                         /\ UNCHANGED i
               ELSE /\ pc' = "attempt_signup"
                    /\ UNCHANGED i
    /\ UNCHANGED <<calc, web, config, cycle_count, previous_signups, session_file, session_stale,
                   browsers, page_url, matches, result, cycle_history>>

\* The outcome of attempt_signup as the properties name it.
OutcomeName(raised, classified) ==
    IF raised THEN "Error"
    ELSE IF classified = "True" THEN "Success"
    ELSE IF classified = "False" THEN "Failure"
    ELSE "Ambiguous"

\* A cycle that carries on with the next page after a successful signup.
AfterAttempt_NoStop(success) == "rate_limit"

\* A cycle that retries the page after an attempt that did not succeed.
AfterAttempt_Retry(success) == IF success THEN "cycle_returned" ELSE "matches"

\* run_monitoring_cycle lines 137-139: a successful attempt returns from the cycle.
AfterAttempt(success) == IF success THEN "cycle_returned" ELSE "rate_limit"

\* confirmation_selectors of attempt_signup, in the order they are tried.
ConfirmationSelectors ==
    <<"button:has-text(\"Confirm\")", "button:has-text(\"Yes\")", "button:has-text(\"OK\")",
      ".modal-confirm button", ".confirm-button">>

\* The steps of attempt_signup that can raise, in program order: scrolling to
\* the signup control, clicking it, waiting for the page to settle, testing a
\* confirmation selector, clicking the confirmation control, waiting again,
\* and classifying the result.
AttemptFaults ==
    {"none", "scroll", "click", "wait", "is_visible", "confirm_click", "confirm_wait", "classify"}

\* What the page shows and does during one attempt_signup call: the
\* confirmation selectors that are visible after the click, and the step that
\* raises, if one does.
Interactions == [visible : SUBSET {ConfirmationSelectors[k] : k \in DOMAIN ConfirmationSelectors},
                 fault : AttemptFaults]

\* An attempt that clicks every visible confirmation control.
ConfirmationsOf_All(visible) ==
    SelectSeq(ConfirmationSelectors, LAMBDA sel : sel \in visible)

\* Lines 43-48: the confirmation controls the loop clicks: the first visible
\* one of the list (then `break`), none when none is visible.
ConfirmationsOf(visible) ==
    IF \E k \in DOMAIN ConfirmationSelectors : ConfirmationSelectors[k] \in visible
    THEN <<ConfirmationSelectors[CHOOSE k \in DOMAIN ConfirmationSelectors :
                                    /\ ConfirmationSelectors[k] \in visible
                                    /\ \A j \in 1..(k - 1) : ConfirmationSelectors[j] \notin visible]>>
    ELSE <<>>

\* Lines 26-51 of attempt_signup on an interaction x: how many times the
\* signup control was clicked, the confirmation controls clicked, whether
\* detect_signup_result was called, and whether a step raised.  A step that
\* raises ends the try block; a fault on a step the call never reaches (a
\* confirmation step when no confirmation control is visible) does not occur.
ClickAndConfirm(x) ==
    LET confirming == ConfirmationsOf(x.visible) # <<>>
        raised == \/ x.fault \in {"scroll", "click", "wait", "is_visible", "classify"}
                  \/ x.fault \in {"confirm_click", "confirm_wait"} /\ confirming
    IN  [clicks |-> IF x.fault = "scroll" THEN 0 ELSE 1,
         confirms |-> IF x.fault \in {"scroll", "click", "wait", "is_visible"}
                      THEN <<>> ELSE ConfirmationsOf(x.visible),
         classified |-> x.fault \notin {"scroll", "click", "wait", "is_visible"}
                        /\ ~(x.fault \in {"confirm_click", "confirm_wait"} /\ confirming),
         raised |-> raised]

\* What one attempt_signup call can meet: a step that raises, or the page the
\* click led to and, when that page is taken for a success, what send_sms
\* returns for the notification.
AttemptAnswers ==
    {[raised |-> TRUE, fault |-> x.fault,
      rp |-> [success_el |-> FALSE, error_el |-> FALSE, url_success |-> FALSE,
              text_success |-> FALSE, text_error |-> FALSE],
      sent |-> "none"] : x \in {y \in Interactions : ClickAndConfirm(y).raised}}
    \cup {[raised |-> FALSE, fault |-> "none", rp |-> rp, sent |-> "none"] :
              rp \in {q \in ResultPages : ~Truthy(DetectSignupResult(q))}}
    \cup {[raised |-> FALSE, fault |-> "none", rp |-> rp,
           sent |-> SendSms(send.configured, send.transport)] :
              rp \in {q \in ResultPages : Truthy(DetectSignupResult(q))}, send \in SendAnswers}

\* An attempt_signup whose handler covers the click and the wait only.
AttemptCatches_ClickOnly(fault) == fault \in {"scroll", "click", "wait"}

\* attempt_signup lines 23 and 64: the try block spans every step of the
\* call and `except Exception` catches whatever a step raises.
AttemptCatches(fault) == fault \in AttemptFaults

\* PlaywrightMonitor.attempt_signup for the best match of page i, and lines
\* 135-139 of the cycle that act on what it returns.  raised: some step (scroll,
\* click, wait, confirmation, classification) raised; rp: the page the click and
\* the optional confirmation led to; send: what the success notification meets.
\* An exception out of the notifier would be caught like any other (line 64),
\* after the name was added to previous_signups.  An exception the handler
\* did not catch would leave the cycle through `finally` (line 151) and be
\* caught by run_continuous (base_monitor.py lines 101-104).
AttemptSignup ==
    /\ pc = "attempt_signup"
    /\ \E a \in AttemptAnswers :
          LET best_match == matches[1]
              raised == a.raised
              escaped == raised /\ ~AttemptCatches(a.fault)
              rp == a.rp
              classified == DetectSignupResult(rp)
              detected == ~raised /\ Truthy(classified)
              sent == a.sent
              success == detected /\ sent # "raised"
              outcome == OutcomeName(raised \/ sent = "raised", classified)
          IN  /\ attempted' = Append(attempted, [name |-> best_match.name, page |-> i])
              /\ attempt_fault' = a.fault
              /\ last_outcome' = outcome
              /\ result_page' = IF raised THEN <<>> ELSE <<rp>>
              /\ successes' = IF outcome = "Success" THEN successes + 1 ELSE successes
              /\ page_url' = Url(IF ~raised /\ rp.url_success THEN "result_ok" ELSE "result", 0)
              /\ IF detected
                 THEN /\ previous_signups' = previous_signups \cup {best_match.name}
                      /\ notified' = Append(notified,
                             [kind |-> "signup_success", clubs |-> <<best_match.name>>])
                      /\ last_send' = sent
                 ELSE UNCHANGED <<previous_signups, notified, last_send>>
              /\ pc' = IF escaped THEN "sleep120" ELSE AfterAttempt(success)
              /\ IF escaped
                 THEN /\ result' = "raised"
                      /\ browsers' = BrowsersAfter(browsers, "raised")
                 ELSE IF AfterAttempt(success) = "cycle_returned"
                 THEN /\ result' = "True"
                      /\ browsers' = BrowsersAfter(browsers, "success")
                 ELSE UNCHANGED <<result, browsers>>
    /\ UNCHANGED <<calc, web, config, page_log, cycle_count, session_file, session_stale, i, matches,
                   all_matches, auth_result, last_auth, log_signup, navs, reauthed,
                   recovery_failed, slept_after>>

\* A cycle that gives up its remaining pages once a recovery has failed.
RateLimit_AbortOnFailure ==
    /\ pc = "rate_limit"
    /\ IF i < NumPages /\ i \notin recovery_failed
       THEN /\ slept_after' = slept_after \cup {i}
            /\ i' = i + 1
            /\ pc' = "monitor_page"
       ELSE /\ pc' = "summary"
            /\ UNCHANGED <<slept_after, i>>
    /\ result_page' = <<>>
    /\ page_log' = NoPage
    /\ attempt_fault' = "none"
    /\ UNCHANGED <<calc, web, config, last_send, cycle_count, previous_signups, session_file,
                   session_stale, browsers, page_url, matches, all_matches, result, auth_result,
                   last_auth, log_signup, navs, attempted, last_outcome, successes, reauthed,
                   recovery_failed, notified>>

\* run_monitoring_cycle lines 141-143 and the loop's step: sleep the rate-limit
\* delay unless page i is the last, then go on to the next page.
RateLimit ==
    /\ pc = "rate_limit"
    /\ IF i < NumPages
       THEN /\ slept_after' = slept_after \cup {i}
            /\ i' = i + 1
            /\ pc' = "monitor_page"
       ELSE /\ pc' = "summary"
            /\ UNCHANGED <<slept_after, i>>
    /\ result_page' = <<>>
    /\ page_log' = NoPage
    /\ attempt_fault' = "none"
    /\ UNCHANGED <<calc, web, config, last_send, cycle_count, previous_signups, session_file,
                   session_stale, browsers, page_url, matches, all_matches, result, auth_result,
                   last_auth, log_signup, navs, attempted, last_outcome, successes, reauthed,
                   recovery_failed, notified>>

\* A summary that lists every match.
SummaryNames_All(ms) == [k \in 1..Len(ms) |-> ms[k].name]

\* The names send_favorites_available lists: those of the first SummaryCap matches.
SummaryNames(ms) ==
    [k \in 1..(IF Len(ms) < SummaryCap THEN Len(ms) ELSE SummaryCap) |-> ms[k].name]

\* A cycle that reports True whatever it found.
CycleValue_AlwaysTrue(ms) == "True"

\* run_monitoring_cycle line 149: `return len(all_matches) > 0`.
CycleValue(ms) == IF Len(ms) > 0 THEN "True" ELSE "False"

\* run_monitoring_cycle lines 145-152: the summary notification, the return
\* value, and the finally clause closing the browser.  An exception out of the
\* notifier would leave the cycle, into run_continuous.
EndCycle ==
    /\ pc = "summary"
    /\ result_page' = <<>>
    /\ IF all_matches # <<>> /\ ~config.auto_signup_enabled
       THEN \E sent \in {SendSms(send.configured, send.transport) : send \in SendAnswers} :
               /\ notified' = Append(notified, [kind |-> "favorites_available",
                                                clubs |-> SummaryNames(all_matches)])
               /\ last_send' = sent
               /\ IF sent = "raised"
                  THEN /\ result' = "raised"
                       /\ pc' = "sleep120"
                  ELSE /\ result' = CycleValue(all_matches)
                       /\ pc' = "cycle_returned"
       ELSE /\ result' = CycleValue(all_matches)
            /\ pc' = "cycle_returned"
            /\ UNCHANGED <<notified, last_send>>
    /\ browsers' = BrowsersAfter(browsers, IF result' = "raised" THEN "raised" ELSE "completed")
    /\ UNCHANGED <<calc, web, attempt_fault, config, page_log, cycle_count, previous_signups, session_file, session_stale,
                   page_url, i, matches, all_matches, auth_result, last_auth, log_signup,
                   navs, attempted, last_outcome, successes, reauthed, recovery_failed,
                   slept_after>>

\* run_continuous line 92: `success and self.config.auto_signup_enabled`, the
\* runner's test for "a signup was completed in this cycle".
SignedUp(success, cfg) == success = "True" /\ cfg.auto_signup_enabled

\* A loop that ends once a cycle reported success.
AfterCycle_BreakOnSuccess ==
    /\ pc = "cycle_returned"
    /\ pc' = IF result = "True" THEN "returned" ELSE "sleep600"
    /\ log_signup' = SignedUp(result, config)
    /\ result_page' = <<>>
    /\ last_send' = "none"
    /\ page_log' = NoPage
    /\ UNCHANGED <<calc, web, attempt_fault, config, cycle_count, previous_signups, session_file, session_stale,
                   browsers, page_url, i, matches, all_matches, result, auth_result, last_auth,
                   navs, attempted, last_outcome, successes, reauthed, recovery_failed,
                   notified, slept_after>>

\* run_continuous lines 90-97: the cycle returned; log and sleep ten minutes.
AfterCycle ==
    /\ pc = "cycle_returned"
    /\ pc' = "sleep600"
    /\ log_signup' = SignedUp(result, config)
    /\ result_page' = <<>>
    /\ last_send' = "none"
    /\ page_log' = NoPage
    /\ UNCHANGED <<calc, web, attempt_fault, config, cycle_count, previous_signups, session_file, session_stale,
                   browsers, page_url, i, matches, all_matches, result, auth_result, last_auth,
                   navs, attempted, last_outcome, successes, reauthed, recovery_failed,
                   notified, slept_after>>

\* A sleep of run_continuous (600 s after a cycle, 120 s after an exception)
\* is over: back to the top of the while loop.
Resume ==
    /\ pc \in {"sleep600", "sleep120"}
    /\ pc' = "loop"
    /\ UNCHANGED <<calc, web, config, cycle_count, previous_signups, session_file, session_stale,
                   browsers, page_url, i, matches, all_matches, result, cycle_history>>

\* KeyboardInterrupt, at any point of the loop.  It is no Exception, so neither
\* monitor_page nor attempt_signup catches it; the cycle's finally clause closes
\* the browser and run_continuous (or main) ends the monitoring.  The cycle's
\* locals go out of scope, and its history ends with it.
KeyboardInterrupt ==
    /\ pc \in InLoop
    /\ pc' = "interrupted"
    /\ browsers' = IF pc \in InCycle THEN BrowsersAfter(browsers, "interrupted") ELSE browsers
    /\ page_url' = Blank
    /\ i' = 0
    /\ matches' = <<>>
    /\ all_matches' = <<>>
    /\ auth_result' = "none"
    /\ last_auth' = NoAuth
    /\ result_page' = <<>>
    /\ log_signup' = FALSE
    /\ last_send' = "none"
    /\ page_log' = NoPage
    /\ navs' = <<>>
    /\ attempted' = <<>>
    /\ last_outcome' = "none"
    /\ successes' = 0
    /\ reauthed' = FALSE
    /\ recovery_failed' = {}
    /\ notified' = <<>>
    /\ slept_after' = {}
    /\ attempt_fault' = "none"
    /\ UNCHANGED <<calc, web, config, cycle_count, previous_signups, session_file, session_stale, result>>

Next ==
    \/ Main
    \/ RunContinuous
    \/ StartCycle
    \/ CycleAuthenticate
    \/ MonitorPage
    \/ ProcessMatches
    \/ AttemptSignup
    \/ RateLimit
    \/ EndCycle
    \/ AfterCycle
    \/ Resume
    \/ KeyboardInterrupt

Spec == Init /\ [][Next]_vars

\* ------------------------------------------- the matcher's functions, called
\* Sequences of at most n elements of S.
SeqsUpTo(S, n) == UNION {[1..k -> S] : k \in 0..n}

\* The favorites the calls configure, and the club names they are matched with.
FavoriteNames == {Chess, Go, Chars("FBLA"), Chars("Launch X"), Chars("Chess Club")}

ClubNames ==
    {Chars("Future Business Leaders of America (FBLA)"), Chars("Launch X Entrepreneurship"),
     Chars("Chess Team"), Chars("Robotics"), Chars("Che"), ChessClub, GoClub, ArtClub}

\* Lines of an entry's text.
LineSamples ==
    {Chars("Room 301"), Chars("Capacity: 20 signups"), Chars("Investment Club"),
     Chars("  Go   "), Chars("12345678"), Chars("   "), Chars("SPONSOR Smith")}

\* Items of a FAVORITES setting, between its commas.
ItemSamples == {Chars("Chess"), Chars(" Chess "), Chars("Go"), Chars(" "), <<>>}

\* Availability phrasings of an entry other than a fill count.
PhraseSamples ==
    {Chars("Waitlist: 5"), Chars("Activity FULL"), Chars("Closed"), Chars("Cancelled"),
     Chars("No  space left"), Chars("Nospace"), Chars("Open to all"), Chars("Sign up now")}

\* The markup of an entry's signup control, enabled and disabled.
Markup == Chars("<button>Sign Up</button>")
MarkupDisabled == Chars("<button disabled>Sign Up</button>")

\* An activity element as the page renders it: inner_text, inner_html, whether
\* the selectors of signup_selectors whose first element in it is visible,
\* whether reading it raises.
Rendered(text, html, visible, r) == [text |-> text, html |-> html, visible |-> visible, raises |-> r]

\* What find_matches reads from an activity element.
ReadEntry(e) ==
    Entry(ExtractClubName(e.text), CheckAvailability(e.text, e.html),
          FindSignupElement(e.visible) # None, e.raises)

RenderedCatalogue ==
    { Rendered(Chars("chess club\nRoom 12\n2/3 signups"), Markup, {SignupSelectors[1]}, FALSE),
      Rendered(Chars("Chess Team\n1/3"), Markup, {SignupSelectors[4], SignupSelectors[6]}, FALSE),
      Rendered(Chars("Go Club\n1/5"), Markup, {SignupSelectors[7]}, FALSE),
      Rendered(Chars("Go Club\n3/3"), Markup, {SignupSelectors[1]}, FALSE),
      Rendered(Chars("Launch X Entrepreneurship\n4/9"), Markup, {}, FALSE),
      Rendered(Chars("Art Club\n1/2"), Markup, {SignupSelectors[2]}, FALSE),
      Rendered(Chars("chess club\n1/3"), Markup, {SignupSelectors[1]}, TRUE) }

\* The renderings of a page in the calls of find_matches: at most two
\* elements of the catalogue, in any order, the same element twice included.
RenderedPages ==
    {<<>>} \cup {<<e>> : e \in RenderedCatalogue}
           \cup {<<e, f>> : e \in RenderedCatalogue, f \in RenderedCatalogue}

ReadCatalogue == [e \in RenderedCatalogue |-> ReadEntry(e)]

\* The monitor's own state, which a call of one of these functions leaves alone.
monitor == <<config, pc, cycle_count, previous_signups, session_file, session_stale, browsers,
             page_url, i, matches, all_matches, result, cycle_history>>

\* Config.load_config reads a FAVORITES setting.
CallLoadConfig ==
    /\ calc = NoCalc
    /\ UNCHANGED <<monitor, web>>
    /\ \E items \in SeqsUpTo(ItemSamples, MaxItems) :
        calc' = [op |-> "load_config", favorites_str |-> Join(items, ","),
                 res |-> LoadFavorites(Join(items, ","))]

\* ClubMatcher.extract_club_name on an entry's text.
CallExtractClubName ==
    /\ calc = NoCalc
    /\ UNCHANGED <<monitor, web>>
    /\ \E lines \in SeqsUpTo(LineSamples, MaxLines) :
        calc' = [op |-> "extract_club_name", lines |-> lines,
                 res |-> ExtractClubName(Join(lines, "\n"))]

\* ClubMatcher.check_favorite_match
CallCheckFavoriteMatch ==
    /\ calc = NoCalc
    /\ UNCHANGED <<monitor, web>>
    /\ \E favorites \in SeqsUpTo(FavoriteNames, MaxFavorites), club_name \in ClubNames :
        calc' = [op |-> "check_favorite_match", favorites |-> favorites,
                 club_name |-> club_name, res |-> CheckFavoriteMatch(favorites, club_name)]

\* ClubMatcher.check_availability on an entry whose availability text is a
\* fill count a/b, and on one whose availability text is a phrase.
CallCheckAvailability ==
    /\ calc = NoCalc
    /\ UNCHANGED <<monitor, web>>
    /\ \/ \E a \in 0..MaxFill, b \in 1..MaxFill, html \in {Markup, MarkupDisabled} :
             LET text == ChessClub \o <<"\n">> \o Str(a) \o <<"/">> \o Str(b)
             IN  calc' = [op |-> "check_availability", count |-> <<a, b>>, phrase |-> <<>>,
                          html |-> html, res |-> CheckAvailability(text, html)]
       \/ \E phrase \in PhraseSamples, html \in {Markup, MarkupDisabled} :
             LET text == ChessClub \o <<"\n">> \o phrase
             IN  calc' = [op |-> "check_availability", count |-> <<>>, phrase |-> phrase,
                          html |-> html, res |-> CheckAvailability(text, html)]

\* The click-and-confirm part of PlaywrightMonitor.attempt_signup.
CallAttemptSignup ==
    /\ calc = NoCalc
    /\ UNCHANGED <<monitor, web>>
    /\ \E x \in Interactions :
          calc' = [op |-> "attempt_signup", visible |-> x.visible, fault |-> x.fault,
                   res |-> ClickAndConfirm(x)]

\* BaseMonitor.detect_signup_result, called twice in a row on a page nothing
\* else touches.
CallDetectSignupResult ==
    /\ calc = NoCalc
    /\ UNCHANGED <<monitor, web>>
    /\ \E p \in ResultPages :
          LET first == ClassifyPage(p)
              second == ClassifyPage(first.page)
          IN  calc' = [op |-> "detect_signup_result", page |-> p, first |-> first.value,
                       second |-> second.value, page_after |-> second.page]

\* ClubMatcher.find_matches on a rendered page.
CallFindMatches ==
    /\ calc = NoCalc
    /\ UNCHANGED <<monitor, web>>
    /\ \E favorites \in SeqsUpTo(FavoriteNames, MaxFavorites), page \in RenderedPages :
        LET activities == [k \in DOMAIN page |-> ReadCatalogue[page[k]]]
        IN  calc' = [op |-> "find_matches", favorites |-> favorites, page |-> page,
                     activities |-> activities,
                     res |-> FindMatches(favorites, activities)]

CalcInit ==
    /\ Init
    /\ config = [username |-> "user", password |-> "secret", favorites |-> <<Chess>>,
                 auto_signup_enabled |-> TRUE]
    /\ ~session_file

\* The call returns to its caller.
CallReturns ==
    /\ calc # NoCalc
    /\ calc' = NoCalc
    /\ UNCHANGED <<monitor, web>>

CalcNext ==
    \/ CallLoadConfig
    \/ CallExtractClubName
    \/ CallCheckFavoriteMatch
    \/ CallCheckAvailability
    \/ CallFindMatches
    \/ CallAttemptSignup
    \/ CallDetectSignupResult
    \/ CallReturns

\* The functions of the matcher and of the loader, called on their own.
CalcSpec == CalcInit /\ [][CalcNext]_vars

\* ------------------------------------------------------------ HTTP monitor
\* monitors/http_monitor.py: WebpageMonitor polls the configured URLs over
\* HTTP and notifies of the favorites that became available.

\* load_config line 39: the default URL_BASE.
UrlBase == Chars("https://ion.tjhsst.edu/eighth/signup/")

\* load_config line 40: the default URL_START.
UrlStart == 4555

\* load_config line 42: monitor_urls.
MonitorUrls == [k \in 1..NumUrls |-> UrlBase \o Str(UrlStart + k - 1)]

\* A monitor that keys its state by the directory of the URL.
UrlKey_Directory(url) ==
    LET pieces == SplitOn(url, "/") IN pieces[Len(pieces) - 1]

\* monitor_once line 244: url.split('/')[-1].
UrlKey(url) ==
    LET pieces == SplitOn(url, "/") IN pieces[Len(pieces)]

\* The url_key of each configured URL.
UrlKeys == [k \in 1..NumUrls |-> UrlKey(MonitorUrls[k])]

\* A club as parse_signup_page returns it.
Club(name, available, capacity_text) ==
    [name |-> name, available |-> available, capacity_text |-> Chars(capacity_text)]

\* What parse_signup_page can return for a fetched page.
ClubLists ==
    {<<>>,
     <<Club(ChessClub, TRUE, "1/3")>>,
     <<Club(ChessClub, FALSE, "full")>>,
     <<Club(GoClub, TRUE, "2/3")>>,
     <<Club(ChessClub, TRUE, "1/3"), Club(GoClub, TRUE, "2/3")>>,
     <<Club(GoClub, TRUE, "2/3"), Club(ChessClub, FALSE, "full"), Club(ArtClub, TRUE, "0 taken")>>,
     <<Club(ChessClub, TRUE, "1/3"), Club(ChessClub, TRUE, "2/3")>>}

\* What the fetch of a URL can meet: a 200 response with its clubs, another
\* status, an exception of session.get.
Responses ==
    {[kind |-> "status", clubs |-> <<>>], [kind |-> "raised", clubs |-> <<>>]}
    \cup {[kind |-> "ok", clubs |-> clubs] : clubs \in ClubLists}

\* check_favorites_availability lines 168-185: the available clubs whose name
\* contains a favorite or is contained in one, case-insensitively, in page
\* order, each once.
CheckFavoritesAvailability(clubs, favorites) ==
    LET hit(club) ==
            /\ club.available
            /\ \E f \in DOMAIN favorites :
                  \/ Contains(Lower(club.name), Lower(favorites[f]))
                  \/ Contains(Lower(favorites[f]), Lower(club.name))
        kept == SelectSeq(clubs, hit)
    IN  [k \in DOMAIN kept |-> [name |-> kept[k].name, capacity_text |-> kept[k].capacity_text]]

\* monitor_once line 245: set(self.previous_state.get(url_key, [])).
StateGet(state, url_key) == IF url_key \in DOMAIN state THEN state[url_key] ELSE {}

\* monitor_once line 259: self.previous_state[url_key] = list(current_available).
StatePut(state, url_key, current_available) ==
    [key \in DOMAIN state \cup {url_key} |->
        IF key = url_key THEN current_available ELSE state[key]]

\* A monitor that reports every available favorite at every check.
NewOpportunities_All(current_available, previous_available) == current_available

\* monitor_once line 249: current_available - previous_available.
NewOpportunities(current_available, previous_available) ==
    current_available \ previous_available

\* The names of a sequence of clubs.
NamesOf(clubs) == {clubs[k].name : k \in DOMAIN clubs}

\* main and WebpageMonitor.__init__ (lines 24-56): an empty previous_state and
\* the favorites of the FAVORITES setting.
WebMain ==
    /\ web_pc = "main"
    /\ web_pc' = "idle"
    /\ web_favorites' \in FavoriteLists
    /\ previous_state' = [key \in {} |-> {}]
    /\ UNCHANGED <<monitor, calc, web_cycles, web_i, all_new_opportunities, web_sent,
                   last_check, recorded>>

\* run_continuous line 296 and monitor_once lines 218-224: a failed
\* authentication ends the call before any URL is fetched.
MonitorOnce ==
    /\ web_pc = "idle"
    /\ web_cycles < MaxChecks
    /\ web_cycles' = web_cycles + 1
    /\ all_new_opportunities' = <<>>
    /\ web_sent' = <<>>
    /\ last_check' = NoCheck
    /\ \E authenticated \in BOOLEAN :
          IF authenticated
          THEN /\ web_pc' = "check"
               /\ web_i' = 1
          ELSE /\ web_pc' = "sleep"
               /\ web_i' = 0
    /\ UNCHANGED <<monitor, calc, web_favorites, previous_state, recorded>>

\* monitor_once lines 226-266, one iteration of the loop: fetch the URL; a
\* status other than 200 (`continue`) or an exception leave previous_state
\* alone; otherwise report the available favorites that were not recorded
\* for the URL and record the current ones.
CheckUrl ==
    /\ web_pc = "check"
    /\ \E response \in Responses :
          LET url == MonitorUrls[web_i]
              available_favorites == CheckFavoritesAvailability(response.clubs, web_favorites)
              url_key == UrlKeys[web_i]
              previous_available == StateGet(previous_state, url_key)
              current_available == NamesOf(available_favorites)
              new_opportunities == NewOpportunities(current_available, previous_available)
              added == SelectSeq(available_favorites,
                                 LAMBDA club : club.name \in new_opportunities)
          IN  IF response.kind = "ok"
              THEN /\ all_new_opportunities' =
                          all_new_opportunities
                          \o [k \in DOMAIN added |-> [url |-> url, club |-> added[k]]]
                   /\ previous_state' = StatePut(previous_state, url_key, current_available)
                   /\ recorded' = [recorded EXCEPT ![web_i] = current_available]
                   /\ last_check' = [page |-> web_i, kind |-> "ok",
                                     available |-> current_available,
                                     reported |-> NamesOf(added)]
              ELSE /\ last_check' = [page |-> web_i, kind |-> response.kind,
                                     available |-> {}, reported |-> {}]
                   /\ UNCHANGED <<all_new_opportunities, previous_state, recorded>>
    /\ IF web_i < NumUrls
       THEN /\ web_i' = web_i + 1
            /\ UNCHANGED web_pc
       ELSE /\ web_pc' = "notify"
            /\ UNCHANGED web_i
    /\ UNCHANGED <<monitor, calc, web_favorites, web_cycles, web_sent>>

\* monitor_once lines 268-270 and send_opportunity_notifications: one message
\* naming every new opportunity of the call, none when there is none.
NotifyOpportunities ==
    /\ web_pc = "notify"
    /\ web_sent' = [k \in DOMAIN all_new_opportunities |-> all_new_opportunities[k].club.name]
    /\ last_check' = NoCheck
    /\ web_pc' = "sleep"
    /\ UNCHANGED <<monitor, calc, web_favorites, web_cycles, web_i, previous_state,
                   all_new_opportunities, recorded>>

\* run_continuous lines 297-298: ten minutes until the next monitor_once.
WebSleep ==
    /\ web_pc = "sleep"
    /\ web_pc' = "idle"
    /\ web_sent' = <<>>
    /\ all_new_opportunities' = <<>>
    /\ UNCHANGED <<monitor, calc, web_favorites, web_cycles, web_i, previous_state,
                   last_check, recorded>>

WebInit ==
    /\ Init
    /\ config = [username |-> "user", password |-> "secret", favorites |-> <<Chess>>,
                 auto_signup_enabled |-> TRUE]
    /\ ~session_file

WebNext ==
    \/ WebMain
    \/ MonitorOnce
    \/ CheckUrl
    \/ NotifyOpportunities
    \/ WebSleep

WebSpec == WebInit /\ [][WebNext]_vars

\* =================================================================== claims
Last(seq) == seq[Len(seq)]

\* The pages a cycle visits when nothing ends it early: 1, 2, .., NumPages.
AllPages == [k \in 1..NumPages |-> k]

\* A step of attempt_signup: the call is recorded.
AttemptStep == attempted' # attempted /\ Len(attempted') = Len(attempted) + 1

\* C1: once an attempt_signup call of a cycle is classified Success the cycle
\* has returned (with True): the page of that attempt is the last page the
\* cycle navigated, that attempt is the cycle's last, and it is the cycle's
\* only successful one.
C1_StopAfterSuccess ==
    successes >= 1 =>
        /\ successes = 1
        /\ pc \notin InCycle
        /\ result = "True"
        /\ last_outcome = "Success"
        /\ Last(navs) = Last(attempted).page

\* A cycle ended by a success on a page that is not the last configured one.
C1_Witness ==
    /\ pc = "cycle_returned"
    /\ successes = 1
    /\ config.auto_signup_enabled
    /\ Last(navs) < NumPages

\* C2: in every cycle, a call of attempt_signup is for a club name that is not
\* in previous_signups when the call is made.
C2_NoAttemptForPreviousSignup ==
    [][AttemptStep => Last(attempted').name \notin previous_signups]_vars

\* A later cycle met a best match that was signed up for before, and skipped it.
C2_Witness ==
    /\ cycle_count >= 2
    /\ pc = "monitor_page"
    /\ i >= 2
    /\ (i - 1) \notin slept_after
    /\ matches # <<>>
    /\ matches[1].name \in previous_signups

\* C3: a call of attempt_signup adds the club name to previous_signups and
\* dispatches the signup-success notification when the page is classified
\* Success, and the attempt then counts as successful; on any other outcome
\* (Failure, Ambiguous, an exception) it changes neither the set nor the
\* notifications and the attempt counts as failed.
C3_SideEffectsIffSuccess ==
    [][AttemptStep =>
          IF last_outcome' = "Success"
          THEN /\ previous_signups' = previous_signups \cup {Last(attempted').name}
               /\ notified' = Append(notified, [kind |-> "signup_success",
                                                clubs |-> <<Last(attempted').name>>])
               /\ result' = "True"
          ELSE /\ previous_signups' = previous_signups
               /\ notified' = notified
               /\ result' = result
               /\ pc' \in InCycle]_vars

\* An attempt ended Ambiguous and left the set and the notifications alone.
C3_Witness ==
    /\ last_outcome = "Ambiguous"
    /\ pc = "rate_limit"
    /\ previous_signups = {}
    /\ notified = <<>>

\* C4 as claimed: no club name is attempted twice in one cycle.
C4_OncePerClub ==
    \A j, k \in DOMAIN attempted :
        j < k => attempted[j].name # attempted[k].name

\* C4, amended: in one cycle attempt_signup is called at most once per
\* configured page, on pages in increasing order, and a second call (for the
\* same club or another) is made only when no earlier call of the cycle was
\* classified Success.
C4_OncePerPage ==
    /\ \A j, k \in DOMAIN attempted :
          j < k => attempted[j].page < attempted[k].page
    /\ Len(attempted) >= 2 => successes = 0 \/ last_outcome = "Success"

\* The same club was attempted on two pages of one cycle.
C4_Witness ==
    \E j, k \in DOMAIN attempted :
        j < k /\ attempted[j].name = attempted[k].name

\* C5 as claimed: once the recovery of a page has failed, no later configured
\* page is navigated in that cycle.
C5_AbortsCycle ==
    \A p \in recovery_failed : \A k \in DOMAIN navs : navs[k] <= p

\* C5, amended: a failed recovery abandons that page only.  monitor_page
\* returns an empty match list for it, no signup is attempted on it, and the
\* cycle is not aborted: the next configured page (if any) is navigated.
C5_AbandonsPageOnly ==
    \A p \in recovery_failed :
        /\ \A k \in DOMAIN attempted : attempted[k].page # p
        /\ (pc = "matches" /\ i = p) => matches = <<>>
        /\ (pc = "cycle_returned" /\ p < NumPages) => \E k \in DOMAIN navs : navs[k] = p + 1

\* A finished cycle in which the page after a failed recovery was navigated.
C5_Witness ==
    /\ pc = "cycle_returned"
    /\ \E p \in recovery_failed : p < NumPages /\ \E k \in DOMAIN navs : navs[k] = p + 1

\* C6 as claimed: a cycle in which a recovery failed still visits every
\* configured page.  (Stated for cycles whose last visited page needed no
\* re-authentication, so that a run refuting it does not pass through the
\* landing page of C7.)
C6_VisitsEveryLaterPage ==
    (pc = "cycle_returned" /\ recovery_failed # {} /\ ~reauthed) => navs = AllPages

\* C6, amended: a cycle in which a recovery failed still goes on through the
\* later pages, in order; it visits every configured page unless a signup on a
\* later page is classified Success, and then it ends on that page.
C6_VisitsLaterPagesUnlessSuccess ==
    (pc = "cycle_returned" /\ recovery_failed # {}) =>
        /\ navs = [k \in 1..Len(navs) |-> k]
        /\ successes = 0 => navs = AllPages
        /\ successes # 0 => /\ Last(navs) = Last(attempted).page
                            /\ \A p \in recovery_failed : p < Last(navs)

\* A cycle whose first page failed recovery and that visited all pages.
C6_Witness ==
    /\ pc = "cycle_returned"
    /\ 1 \in recovery_failed
    /\ navs = AllPages

\* C7 as claimed: after a successful re-authentication in monitor_page, the
\* page find_matches ran on is the target URL's page.
C7_ResumesOnTarget ==
    (pc = "matches" /\ reauthed) => page_url = Target(i)

\* C8: a cycle starts by authenticating; the pages are entered only from a
\* successful authenticate; a failed one ends the cycle with False, with no
\* page navigated, no match, no attempt and no notification, and the browser
\* closed; and the next cycle starts by authenticating again.
PerPage == {"monitor_page", "matches", "attempt_signup", "rate_limit", "summary"}

C8_AuthFailed ==
    auth_result = "False" =>
        /\ pc \in {"cycle_returned", "sleep600", "loop", "interrupted"}
        /\ result = "False"
        /\ navs = <<>>
        /\ matches = <<>>
        /\ all_matches = <<>>
        /\ attempted = <<>>
        /\ notified = <<>>
        /\ browsers = 0

C8_Order ==
    /\ (pc = "loop" /\ pc' \in InCycle) => (pc' = "authenticate" /\ auth_result' = "none")
    /\ (pc' = "authenticate" /\ pc # "authenticate") => pc = "loop"
    /\ (pc' \in PerPage /\ pc \notin PerPage) => (pc = "authenticate" /\ auth_result' = "True")
    /\ pc \in PerPage => pc' \in PerPage \cup {"cycle_returned", "interrupted"}

C8_CycleStateMachine == []C8_AuthFailed /\ [][C8_Order]_vars

\* A cycle that had a stored session ended on a failed authentication, and the
\* loop is about to start the next one.
C8_Witness ==
    /\ auth_result = "False"
    /\ pc = "loop"
    /\ cycle_count < MaxCycles
    /\ session_file

\* C9: inside the loop of run_continuous, a returned cycle is followed by the
\* 600 s sleep and a raised exception by the 120 s sleep, each sleep by the top
\* of the loop and the top of the loop by a new cycle; the loop is left only
\* by KeyboardInterrupt, and short of it there is always a next step.
C9_Step ==
    /\ pc = "cycle_returned" => pc' \in {"sleep600", "interrupted"}
    /\ (pc = "loop" /\ cycle_count' # cycle_count /\ result' = "raised") => pc' = "sleep120"
    /\ pc \in {"sleep600", "sleep120"} => pc' \in {"loop", "interrupted"}
    /\ pc = "loop" => pc' \in {"authenticate", "sleep120", "interrupted"}
    /\ (pc \in InLoop /\ pc' \notin InLoop) => pc' = "interrupted"

C9_CanGoOn ==
    (pc \in InLoop /\ (pc = "loop" => cycle_count < MaxCycles)) =>
        ENABLED (StartCycle \/ CycleAuthenticate \/ MonitorPage \/ ProcessMatches
                 \/ AttemptSignup \/ RateLimit \/ EndCycle \/ AfterCycle \/ Resume)

C9_LoopNeverEnds == []C9_CanGoOn /\ [][C9_Step]_vars

\* A second cycle was started after the first one returned True.
C9_Witness ==
    /\ cycle_count = 2
    /\ pc = "authenticate"
    /\ previous_signups # {}

\* C10: with the username, the password or the favorites list missing, control
\* never gets past main's validation: no cycle, no browser, no navigation, no
\* attempt, no notification.
C10_NoMonitoringWithoutConfig ==
    (config.username = "" \/ config.password = "" \/ config.favorites = <<>>) =>
        /\ pc \in {"main", "exit_config"}
        /\ cycle_count = 0
        /\ browsers = 0
        /\ page_url = Blank
        /\ auth_result = "none"
        /\ navs = <<>>
        /\ attempted = <<>>
        /\ notified = <<>>
        /\ previous_signups = {}

\* Startup stopped on a configuration whose only flaw is the empty favorites list.
C10_Witness ==
    /\ pc = "exit_config"
    /\ config.username # ""
    /\ config.password # ""
    /\ config.favorites = <<>>

\* A step in which authenticate was called (by the cycle, or by monitor_page
\* through handle_session_expiry).
AuthStep == pc \in {"authenticate", "monitor_page"} /\ pc' # "interrupted" /\ last_auth' # NoAuth

\* C11: when the page reached after the credentials were submitted is a
\* second-factor challenge (its URL says so, or a one-time-code input is
\* visible), authenticate returns False, does not write the session file, and
\* returns at once: control is back in the caller, which ends the cycle or
\* skips the page.
C11_ChallengeIsFatal ==
    [][(AuthStep /\ (last_auth'.seen.login = "twofactor" \/ last_auth'.seen.otp = "yes")) =>
          /\ last_auth'.ok = "False"
          /\ last_auth'.seen.save = "none"
          /\ session_file' = session_file
          /\ pc' = IF pc = "authenticate" THEN "cycle_returned" ELSE "matches"
          /\ pc = "monitor_page" => matches' = <<>>]_vars

\* A first login met a one-time-code input on a page of the authenticated
\* area: the cycle ended and no session file was written.
C11_Witness ==
    /\ pc = "cycle_returned"
    /\ last_auth.seen.login = "home"
    /\ last_auth.seen.otp = "yes"
    /\ last_auth.ok = "False"
    /\ ~session_file

\* C12: with a stored session whose probe does not land on the login page,
\* authenticate returns True at once: no login navigation, no form, no
\* second-factor test, no save, and the session file is as it was.
C12_ProbeShortCut ==
    [][(AuthStep /\ last_auth'.seen.probe = "home") =>
          /\ session_file
          /\ last_auth'.ok = "True"
          /\ last_auth'.seen.login = "none"
          /\ last_auth'.seen.otp = "none"
          /\ last_auth'.seen.save = "none"
          /\ session_file' = session_file
          /\ ~HasLogin(page_url')]_vars

\* A cycle went on to its first page on the strength of the stored session.
C12_Witness ==
    /\ pc = "monitor_page"
    /\ i = 1
    /\ session_file
    /\ last_auth.seen.probe = "home"
    /\ last_auth.seen.login = "none"

\* C13: a credential login returns True exactly when it writes the session
\* file, and it does both exactly when the post-login URL carries a marker of
\* the authenticated area and none of the failure outcomes occurred (a
\* second-factor challenge, a timeout or another exception); otherwise it
\* returns False and leaves the session file as it was.
C13_PersistIffMarker ==
    [][(AuthStep /\ last_auth'.seen.login # "none") =>
          LET seen == last_auth'.seen
              ok == last_auth'.ok = "True"
          IN  /\ ok <=> seen.save = "done"
              /\ ok => (seen.login = "home" /\ session_file')
              /\ (seen.login = "home" /\ seen.otp = "no" /\ seen.save # "fault") => ok
              /\ ~ok => (last_auth'.ok = "False" /\ session_file' = session_file)]_vars

\* A first login landed on a page without a marker: False, and no session file.
C13_Witness ==
    /\ pc = "cycle_returned"
    /\ last_auth.seen.login = "other"
    /\ last_auth.seen.otp = "no"
    /\ last_auth.ok = "False"
    /\ ~session_file

\* C14 as claimed: once authenticate has returned, the session file does not
\* hold a session that a probe or a page navigation found redirected to the
\* login page; so no such session is restored by the next cycle.
C14_ExpiredSessionReplaced == ~session_stale

\* C15: a call of authenticate does not end on an exception: whatever step
\* raised (probe, login flow, second-factor test, save), the call returned
\* False, and an exception that reaches run_continuous comes from before the
\* cycle's authenticate.
C15_FaultsBecomeFalse ==
    /\ last_auth.ok # "raised"
    /\ auth_result # "raised"
    /\ "fault" \in {last_auth.seen.probe, last_auth.seen.login,
                    last_auth.seen.otp, last_auth.seen.save} => last_auth.ok = "False"
    /\ pc = "sleep120" => auth_result = "none"

\* The save of a session raised during the cycle's authenticate: the cycle
\* ended with False.
C15_Witness ==
    /\ pc = "cycle_returned"
    /\ last_auth.seen.save = "fault"
    /\ auth_result = "False"
    /\ result = "False"

\* C16: attempt_signup is called only with auto-signup enabled, for the first
\* of the page's matches, whose priority index is the lowest among them, and
\* at most once per page of a cycle.
C16_BestMatchOnly ==
    [][AttemptStep =>
          /\ config.auto_signup_enabled
          /\ Last(attempted').page = i
          /\ Last(attempted').name = matches[1].name
          /\ \A k \in DOMAIN matches : matches[1].priority <= matches[k].priority
          /\ \A k \in DOMAIN attempted : attempted[k].page < i]_vars

\* An attempt on a page with two matches of different priority.
C16_Witness ==
    /\ pc = "rate_limit"
    /\ attempted # <<>>
    /\ Last(attempted).page = i
    /\ Len(matches) = 2
    /\ matches[1].priority < matches[2].priority

\* The step that ends a cycle after its last page.
EndStep == pc = "summary" /\ pc' = "cycle_returned"

\* C17: when a cycle ends after all its pages, it dispatches the "favorites
\* available" notification exactly when it accumulated a match and auto-signup
\* is disabled; the notification lists the first SummaryCap accumulated
\* matches (all of them when fewer); no such notification exists with
\* auto-signup enabled.
C17_Summary ==
    /\ [](\A k \in DOMAIN notified :
             notified[k].kind = "favorites_available" =>
                 /\ ~config.auto_signup_enabled
                 /\ Len(notified[k].clubs) <= SummaryCap)
    /\ [][EndStep =>
             /\ navs = AllPages
             /\ IF all_matches # <<>> /\ ~config.auto_signup_enabled
                THEN /\ Len(notified') = Len(notified) + 1
                     /\ Last(notified').kind = "favorites_available"
                     /\ Last(notified').clubs =
                            [k \in 1..(IF Len(all_matches) < SummaryCap THEN Len(all_matches) ELSE SummaryCap)
                                |-> all_matches[k].name]
                ELSE notified' = notified]_vars

\* A cycle that accumulated more matches than the summary lists.
C17_Witness ==
    /\ pc = "cycle_returned"
    /\ Len(all_matches) > SummaryCap
    /\ notified # <<>>
    /\ Last(notified).kind = "favorites_available"
    /\ Len(Last(notified).clubs) = SummaryCap

\* C18 as claimed: what the runner takes from the cycle's result as "a signup
\* was completed" is true exactly when an attempt of the cycle was classified
\* Success.
C18_SignedUpIffSuccess ==
    pc = "sleep600" => (log_signup <=> successes >= 1)

\* C19: run_monitoring_cycle returns True exactly when the visited pages
\* yielded at least one match, and False when authentication failed or no
\* page yielded a match; whatever it returns, run_continuous sleeps the ten
\* minutes and starts the next cycle.
C19_Value ==
    pc = "cycle_returned" =>
        /\ result \in {"True", "False"}
        /\ result = "True" <=> all_matches # <<>>
        /\ auth_result = "False" => result = "False"

C19_Flow ==
    /\ pc = "cycle_returned" => (pc' \in {"sleep600", "interrupted"} /\ result' = result)
    /\ pc = "sleep600" => pc' \in {"loop", "interrupted"}

C19_ReturnValue == []C19_Value /\ [][C19_Flow]_vars

\* A cycle with auto-signup enabled found matches, signed up for none, and
\* returned True; the runner went to its ten-minute sleep.
C19_Witness ==
    /\ pc = "sleep600"
    /\ result = "True"
    /\ config.auto_signup_enabled
    /\ successes = 0
    /\ all_matches # <<>>

\* C20: the classification is that of the first check that hits, in the order
\* success element, error element, URL, success phrase, error phrase; with no
\* hit it is Ambiguous.
C20_FirstHitWins ==
    result_page # <<>> =>
        LET p == result_page[1] IN
        /\ p.success_el => last_outcome = "Success"
        /\ (~p.success_el /\ p.error_el) => last_outcome = "Failure"
        /\ (~p.success_el /\ ~p.error_el /\ p.url_success) => last_outcome = "Success"
        /\ (~p.success_el /\ ~p.error_el /\ ~p.url_success /\ p.text_success) =>
               last_outcome = "Success"
        /\ (~p.success_el /\ ~p.error_el /\ ~p.url_success /\ ~p.text_success /\ p.text_error) =>
               last_outcome = "Failure"
        /\ (~p.success_el /\ ~p.error_el /\ ~p.url_success /\ ~p.text_success /\ ~p.text_error) =>
               last_outcome = "Ambiguous"

\* A page with a visible error element whose URL says success was classified Failure.
C20_Witness ==
    /\ result_page # <<>>
    /\ result_page[1].error_el
    /\ result_page[1].url_success
    /\ ~result_page[1].success_el
    /\ last_outcome = "Failure"

\* C21 (as stated): the list find_matches returns is sorted strictly ascending
\* by priority: each match has a priority strictly greater than the one before.
C21_StrictlyAscending ==
    calc.op = "find_matches" =>
        \A k \in 1..(Len(calc.res) - 1) : calc.res[k].priority < calc.res[k + 1].priority

\* C21 (amended): the list find_matches returns is sorted ascending by
\* priority: each match has a priority greater than or equal to the one
\* before it, and strictly greater when the two matched different favorites.
C21_Ascending ==
    calc.op = "find_matches" =>
        \A k \in 1..(Len(calc.res) - 1) :
            /\ calc.res[k].priority <= calc.res[k + 1].priority
            /\ calc.res[k].favorite # calc.res[k + 1].favorite
                   => calc.res[k].priority < calc.res[k + 1].priority

\* Two entries of a page, of different names, matched the same favorite.
C21_Witness ==
    /\ calc.op = "find_matches"
    /\ Len(calc.res) = 2
    /\ calc.res[1].name # calc.res[2].name
    /\ calc.res[1].favorite = calc.res[2].favorite
    /\ calc.res[1].priority = calc.res[2].priority

\* C22: every match find_matches returns has the priority that is the
\* zero-based position of its matched favorite in the favorites list, and the
\* first match of a non-empty result has the smallest priority of the matches
\* of the page.
C22_PriorityIsPosition ==
    calc.op = "find_matches" =>
        /\ \A k \in DOMAIN calc.res :
              /\ calc.res[k].priority + 1 \in DOMAIN calc.favorites
              /\ calc.favorites[calc.res[k].priority + 1] = calc.res[k].favorite
              /\ \A j \in 1..calc.res[k].priority : calc.favorites[j] # calc.res[k].favorite
        /\ \A k \in DOMAIN calc.res : calc.res[1].priority <= calc.res[k].priority
        /\ \A k \in DOMAIN calc.activities :
              EntryMatches(calc.favorites, calc.activities[k]) =>
                  /\ calc.res # <<>>
                  /\ calc.res[1].priority <=
                         IndexOf(calc.favorites,
                                 CheckFavoriteMatch(calc.favorites, calc.activities[k].club_name))

\* The page showed the match of the second favorite before the match of the
\* first one, and find_matches returned the match of the first favorite first.
C22_Witness ==
    /\ calc.op = "find_matches"
    /\ Len(calc.res) = 2
    /\ calc.res[1].priority = 0
    /\ calc.res[2].priority = 1
    /\ Len(calc.activities) = 2
    /\ calc.activities[1].club_name = calc.res[2].name
    /\ calc.activities[2].club_name = calc.res[1].name

\* C23: check_favorite_match returns the first favorite in list order for
\* which one of the three case-insensitive containment tests holds (favorite
\* in name, name in favorite, a word of the favorite longer than 3 characters
\* in name), and None when no favorite passes a test; "FBLA" matches "Future
\* Business Leaders of America (FBLA)" and "Launch X" matches "Launch X
\* Entrepreneurship".
C23_FirstFavoriteThatHits ==
    calc.op = "check_favorite_match" =>
        LET name == Lower(calc.club_name)
            Hit(favorite) ==
                \/ Contains(name, Lower(favorite))
                \/ Contains(Lower(favorite), name)
                \/ \E w \in DOMAIN Split(favorite) :
                      Len(Split(favorite)[w]) > 3 /\ Contains(name, Lower(Split(favorite)[w]))
        IN  /\ calc.res # None =>
                  \E k \in DOMAIN calc.favorites :
                      /\ calc.res = calc.favorites[k]
                      /\ Hit(calc.favorites[k])
                      /\ \A j \in 1..(k - 1) : ~Hit(calc.favorites[j])
            /\ calc.res = None => \A k \in DOMAIN calc.favorites : ~Hit(calc.favorites[k])
            /\ (/\ calc.favorites = <<Chars("FBLA")>>
                /\ calc.club_name = Chars("Future Business Leaders of America (FBLA)"))
                   => calc.res = Chars("FBLA")
            /\ (/\ calc.favorites = <<Chars("Launch X")>>
                /\ calc.club_name = Chars("Launch X Entrepreneurship"))
                   => calc.res = Chars("Launch X")

\* Two different favorites hit the name, the second one only by one of its
\* words, and the first one in list order was returned.
C23_Witness ==
    /\ calc.op = "check_favorite_match"
    /\ Len(calc.favorites) = 2
    /\ calc.favorites[1] # calc.favorites[2]
    /\ Contains(Lower(calc.club_name), Lower(calc.favorites[1]))
    /\ ~Contains(Lower(calc.club_name), Lower(calc.favorites[2]))
    /\ ~Contains(Lower(calc.favorites[2]), Lower(calc.club_name))
    /\ FavoriteHits(calc.favorites[2], calc.club_name)
    /\ calc.res = calc.favorites[1]

\* C24 (as stated): an entry whose fill count is an exact fill a/a or an empty
\* activity 0/b is unavailable, an entry whose only availability text is a
\* partial fill a/b with 0 < a < b is available, "Waitlist: 5" is unavailable,
\* and an entry with none of the denylist's phrasings is available.
C24_Denylist ==
    calc.op = "check_availability" =>
        /\ (calc.count # <<>> /\ calc.count[1] = calc.count[2]) => ~calc.res
        /\ (calc.count # <<>> /\ calc.count[1] = 0) => ~calc.res
        /\ (/\ calc.count # <<>>
            /\ calc.html = Markup
            /\ 0 < calc.count[1]
            /\ calc.count[1] < calc.count[2]) => calc.res
        /\ calc.phrase = Chars("Waitlist: 5") => ~calc.res
        /\ (calc.phrase = Chars("Open to all") /\ calc.html = Markup) => calc.res

\* C25: extract_club_name returns the first trimmed non-empty line that holds
\* no status word, is longer than 5 characters and is not purely numeric; the
\* first non-empty line when no line qualifies; None when there is no
\* non-empty line.  For the lines "Room 301", "Capacity: 20 signups",
\* "Investment Club" it returns "Investment Club".
C25_FirstQualifyingLine ==
    calc.op = "extract_club_name" =>
        LET trimmed == SelectSeq([k \in DOMAIN calc.lines |-> Strip(calc.lines[k])],
                                 LAMBDA line : line # <<>>)
            Qualifies(line) ==
                /\ \A word \in {Chars("signups"), Chars("capacity"), Chars("room"),
                                Chars("sponsor")} : ~Contains(Lower(line), word)
                /\ Len(line) > 5
                /\ \E k \in DOMAIN line : line[k] \notin {Digits[d] : d \in DOMAIN Digits}
        IN  /\ \A k \in DOMAIN trimmed :
                  (Qualifies(trimmed[k]) /\ \A j \in 1..(k - 1) : ~Qualifies(trimmed[j]))
                      => calc.res = trimmed[k]
            /\ (trimmed # <<>> /\ \A k \in DOMAIN trimmed : ~Qualifies(trimmed[k]))
                   => calc.res = trimmed[1]
            /\ trimmed = <<>> => calc.res = None
            /\ calc.lines = <<Chars("Room 301"), Chars("Capacity: 20 signups"),
                              Chars("Investment Club")>>
                   => calc.res = Chars("Investment Club")

\* The two status lines were skipped and the third line was returned.
C25_Witness ==
    /\ calc.op = "extract_club_name"
    /\ calc.lines = <<Chars("Room 301"), Chars("Capacity: 20 signups"), Chars("Investment Club")>>
    /\ calc.res = Chars("Investment Club")

\* C26 (as stated): the favorites list load_config produces has no duplicates,
\* keeps the configured order of the items, and has no empty item.
C26_LoadedFavorites ==
    calc.op = "load_config" =>
        LET items == SplitOn(calc.favorites_str, ",")
            trimmed == [k \in DOMAIN items |-> Strip(items[k])]
        IN  /\ \A j, k \in DOMAIN calc.res : j # k => calc.res[j] # calc.res[k]
            /\ calc.res = SelectSeq(trimmed, LAMBDA item : item # <<>>)
            /\ \A k \in DOMAIN calc.res : calc.res[k] # <<>>

\* C27: send_sms returns True or False and never raises; a signup whose result
\* page is taken for a success is recorded in previous_signups, counted as
\* Success and ends the cycle with True whatever send_sms returned, and the
\* end of a cycle hands its value to run_continuous whatever the summary's
\* send returned.
C27_SendNeverBlocks ==
    /\ [](last_send \in {"none", "True", "False"})
    /\ [][(AttemptStep /\ result_page' # <<>>
             /\ DetectSignupResult(result_page'[1]) = "True") =>
             /\ last_send' \in {"True", "False"}
             /\ last_outcome' = "Success"
             /\ previous_signups' = previous_signups \cup {Last(attempted').name}
             /\ result' = "True"
             /\ pc' = "cycle_returned"]_vars
    /\ [][(pc = "summary" /\ pc' # "interrupted") =>
             /\ pc' = "cycle_returned"
             /\ result' = (IF all_matches # <<>> THEN "True" ELSE "False")]_vars

\* A signup succeeded and its notification was not delivered.
C27_Witness ==
    /\ pc = "cycle_returned"
    /\ last_send = "False"
    /\ last_outcome = "Success"
    /\ successes = 1
    /\ Last(attempted).name \in previous_signups

\* C28 as claimed: every page before the one the cycle is about to navigate
\* was followed by the rate-limit sleep, and the last page never is.
C28_SleepBetweenPages ==
    /\ pc = "monitor_page" => \A p \in 1..(i - 1) : p \in slept_after
    /\ NumPages \notin slept_after

\* C29: a navigation or a scan that raises leaves the page with an empty match
\* list; the cycle goes on to the rate limit and from there to the next page
\* (or to its end after the last page), and no page is navigated twice.
C29_Value ==
    /\ (pc \in {"matches", "rate_limit"} /\ page_log.fault # "none") => matches = <<>>
    /\ \A j, k \in DOMAIN navs : j < k => navs[j] < navs[k]

C29_Flow ==
    page_log.fault # "none" =>
        /\ pc = "matches" => pc' \in {"rate_limit", "interrupted"}
        /\ pc = "rate_limit" =>
              \/ pc' = "interrupted"
              \/ i < NumPages /\ pc' = "monitor_page" /\ i' = i + 1
              \/ i = NumPages /\ pc' = "summary"

C29_PageFailureSkipsPage == []C29_Value /\ [][C29_Flow]_vars

\* The first page was processed, the navigation to the second one timed out,
\* and the cycle is at the rate limit before the third.
C29_Witness ==
    /\ pc = "rate_limit"
    /\ i = 2
    /\ i < NumPages
    /\ page_log.fault = "nav"
    /\ navs = <<1, 2>>

\* C30: a navigation that returned is followed by exactly one call of
\* handle_session_expiry; that call runs authenticate exactly when the browser
\* is on the login page, and otherwise returns True leaving the browser on the
\* target and the session file as it was.
C30_ExpiryCheck ==
    [][(pc = "monitor_page" /\ pc' = "matches") =>
          /\ page_log'.expiry = (IF page_log'.landed = "none" THEN 0 ELSE 1)
          /\ page_log'.landed = "login" <=> last_auth' # NoAuth
          /\ page_log'.landed = "target" =>
                /\ page_url' = Target(i)
                /\ session_file' = session_file
                /\ session_stale' = session_stale
                /\ ~reauthed'
                /\ recovery_failed' = recovery_failed]_vars

\* A page that needed no recovery was scanned and had a match.
C30_Witness ==
    /\ pc = "matches"
    /\ page_log.landed = "target"
    /\ page_log.expiry = 1
    /\ last_auth = NoAuth
    /\ matches # <<>>

\* C31: every match find_matches returns comes from an entry whose extracted
\* name matched a favorite, that check_availability reported available and in
\* which a visible signup control was found; an entry that matched and is
\* available but shows no control of the selector list is not in the result.
C31_MatchedAvailableWithControl ==
    calc.op = "find_matches" =>
        LET Qualifies(k) ==
                /\ calc.activities[k].club_name # None
                /\ \E f \in DOMAIN calc.favorites :
                      FavoriteHits(calc.favorites[f], calc.activities[k].club_name)
                /\ calc.activities[k].is_available
                /\ \E sel \in DOMAIN SignupSelectors : SignupSelectors[sel] \in calc.page[k].visible
        IN  \A m \in DOMAIN calc.res :
                Cardinality({j \in DOMAIN calc.res : calc.res[j].name = calc.res[m].name})
                    <= Cardinality({k \in DOMAIN calc.activities :
                                       /\ Qualifies(k)
                                       /\ calc.activities[k].club_name = calc.res[m].name})

\* A page with a matched, available entry without a control and a matched,
\* available entry with one: only the second is returned.
C31_Witness ==
    /\ calc.op = "find_matches"
    /\ Len(calc.page) = 2
    /\ Len(calc.res) = 1
    /\ \E k \in DOMAIN calc.activities :
          /\ calc.page[k].visible = {}
          /\ ~calc.page[k].raises
          /\ calc.activities[k].is_available
          /\ CheckFavoriteMatch(calc.favorites, calc.activities[k].club_name) # None
          /\ calc.activities[k].club_name # calc.res[1].name

\* C32: an exception raised while find_matches processes an entry skips that
\* entry only: the result holds one match for every examined entry that raised
\* nothing and passed the three tests, whatever its place among the entries
\* that raised.
C32_ExceptionSkipsEntryOnly ==
    calc.op = "find_matches" =>
        LET Passes(k) ==
                /\ ~calc.page[k].raises
                /\ calc.activities[k].club_name # None
                /\ CheckFavoriteMatch(calc.favorites, calc.activities[k].club_name) # None
                /\ calc.activities[k].is_available
                /\ calc.page[k].visible # {}
        IN  /\ Len(calc.res) = Cardinality({k \in DOMAIN calc.activities : Passes(k)})
            /\ \A k \in DOMAIN calc.activities :
                  Passes(k) => \E m \in DOMAIN calc.res :
                                  calc.res[m].name = calc.activities[k].club_name

\* The first entry of the page raised and the second one was returned.
C32_Witness ==
    /\ calc.op = "find_matches"
    /\ Len(calc.page) = 2
    /\ calc.page[1].raises
    /\ ~calc.page[2].raises
    /\ Len(calc.res) = 1
    /\ calc.res[1].name = calc.activities[2].club_name

\* C33: attempt_signup clicks the signup control once (never twice, and once
\* whenever scrolling to it did not raise) and at most one confirmation
\* control, the first visible one of the selector list; with no confirmation
\* control visible it goes straight on to classify the result and nothing is
\* raised.
C33_OneClickOneConfirmation ==
    calc.op = "attempt_signup" =>
        /\ calc.res.clicks <= 1
        /\ calc.fault # "scroll" => calc.res.clicks = 1
        /\ Len(calc.res.confirms) <= 1
        /\ calc.res.confirms # <<>> =>
              /\ calc.res.confirms[1] \in calc.visible
              /\ \A k \in DOMAIN ConfirmationSelectors :
                    ConfirmationSelectors[k] = calc.res.confirms[1] =>
                        \A j \in 1..(k - 1) : ConfirmationSelectors[j] \notin calc.visible
        /\ (calc.fault = "none" /\ calc.visible # {}) => Len(calc.res.confirms) = 1
        /\ (calc.visible = {} /\ calc.fault \in {"none", "confirm_click", "confirm_wait"}) =>
              /\ calc.res.confirms = <<>>
              /\ calc.res.classified
              /\ ~calc.res.raised

\* Two confirmation controls were visible and the earlier one of the list was
\* clicked, after one click on the signup control.
C33_Witness ==
    /\ calc.op = "attempt_signup"
    /\ calc.fault = "none"
    /\ calc.visible = {ConfirmationSelectors[2], ConfirmationSelectors[4]}
    /\ calc.res.clicks = 1
    /\ calc.res.confirms = <<ConfirmationSelectors[2]>>
    /\ calc.res.classified

C35_DisabledNeverAttempts ==
    /\ [](~config.auto_signup_enabled =>
              /\ pc # "attempt_signup"
              /\ attempted = <<>>
              /\ successes = 0
              /\ last_outcome = "none"
              /\ previous_signups = {})
    /\ [][~config.auto_signup_enabled => ~AttemptStep]_vars

\* A second cycle with auto-signup disabled found matches and made no attempt.
C35_Witness ==
    /\ ~config.auto_signup_enabled
    /\ cycle_count = 2
    /\ pc = "summary"
    /\ all_matches # <<>>
    /\ attempted = <<>>
    /\ previous_signups = {}

\* C36: when the best match of a page is already in previous_signups the cycle
\* attempts nothing on that page: it leaves the page for the next one (or for
\* the end of the cycle) without a call of attempt_signup, the page's other
\* matches included, and the page's matches are all added to the cycle's
\* accumulated matches.
C36_SkipWithoutFallback ==
    /\ [][(/\ pc = "matches"
           /\ pc' # "interrupted"
           /\ matches # <<>>
           /\ config.auto_signup_enabled
           /\ matches[1].name \in previous_signups) =>
              /\ pc' \in {"monitor_page", "summary"}
              /\ pc' = "monitor_page" => i' = i + 1
              /\ attempted' = attempted
              /\ previous_signups' = previous_signups
              /\ all_matches' = all_matches \o matches]_vars
    /\ [](\A a \in DOMAIN attempted :
              /\ attempted[a].name \notin previous_signups \/ last_outcome = "Success"
              /\ \A b \in DOMAIN attempted : a < b => attempted[a].page < attempted[b].page)

\* In a second cycle a page showed two matches, the better of which was signed
\* up for in the first cycle: the page was left without an attempt and both
\* matches were accumulated.
C36_Witness ==
    /\ cycle_count = 2
    /\ pc \in {"monitor_page", "summary"}
    /\ Len(matches) = 2
    /\ matches[1].name \in previous_signups
    /\ matches[2].name \notin previous_signups
    /\ attempted = <<>>
    /\ Len(all_matches) >= 2
    /\ all_matches[Len(all_matches)] = matches[2]

\* C37: an attempt_signup call in which a step raised (scrolling, clicking,
\* waiting, confirming, classifying) returns a not-successful result without
\* raising: previous_signups is unchanged, no success notification is sent,
\* no success is counted, the browser stays open and the cycle goes on to the
\* rate limit and then to the next configured page (or, after the last page,
\* to the end of the cycle); the club is still outside previous_signups.
C37_RaisingAttemptIsContained ==
    /\ [][(AttemptStep /\ attempt_fault' # "none") =>
              /\ last_outcome' = "Error"
              /\ result' = result
              /\ browsers' = browsers
              /\ previous_signups' = previous_signups
              /\ matches[1].name \notin previous_signups'
              /\ notified' = notified
              /\ last_send' = last_send
              /\ successes' = successes
              /\ result_page' = <<>>
              /\ pc' = "rate_limit"]_vars
    /\ [][(attempt_fault # "none" /\ pc' # "interrupted") =>
              \/ i < NumPages /\ pc' = "monitor_page" /\ i' = i + 1
              \/ i = NumPages /\ pc' = "summary"]_vars
    /\ [](attempt_fault # "none" => pc = "rate_limit" /\ browsers = 1 /\ ENABLED RateLimit)

\* The classification raised in a second attempt of a cycle for the club an
\* earlier page of the cycle already attempted: no signup is recorded and the
\* cycle is about to go on to the next page.
C37_Witness ==
    /\ attempt_fault = "classify"
    /\ pc = "rate_limit"
    /\ i = 2
    /\ i < NumPages
    /\ Len(attempted) = 2
    /\ attempted[1].name = attempted[2].name
    /\ previous_signups = {}
    /\ notified = <<>>

\* C38: a cycle closes the browser it launched before control is back in the
\* continuous loop, however it ends (authentication failed, a signup
\* succeeded, the pages were all processed, an exception, Ctrl-C): a browser
\* is open exactly while a cycle is running, and never more than one.
C38_BrowserClosedOnEveryExit ==
    /\ [](/\ browsers \in {0, 1}
          /\ browsers = 1 <=> pc \in InCycle)
    /\ [][(pc \in InCycle /\ pc' \notin InCycle) => browsers = 1 /\ browsers' = 0]_vars
    /\ [][browsers' > browsers => (pc = "loop" /\ browsers = 0 /\ pc' = "authenticate")]_vars

\* A second cycle has returned early after a successful signup, its browser
\* closed; the first cycle had ended by an exit that closed its own.
C38_Witness ==
    /\ cycle_count = 2
    /\ pc = "cycle_returned"
    /\ result = "True"
    /\ successes = 1
    /\ browsers = 0

\* C39: a check of a URL by monitor_once reports exactly the available
\* favorites found on the page whose names were not in the set recorded by
\* the previous successful check of that URL (none when the fetch failed), so
\* a club recorded as available at the previous successful check is not
\* reported again; the notification of a call names the clubs its checks
\* reported and no other.
C39_ReportedOnlyWhenNewlyAvailable ==
    /\ [][web_pc = "check" =>
              LET check == last_check'
                  appended == SubSeq(all_new_opportunities', Len(all_new_opportunities) + 1,
                                     Len(all_new_opportunities'))
              IN  /\ check.page = web_i
                  /\ check.reported =
                        (IF check.kind = "ok" THEN check.available \ recorded[web_i] ELSE {})
                  /\ {appended[k].club.name : k \in DOMAIN appended} = check.reported
                  /\ \A k \in DOMAIN appended : appended[k].url = MonitorUrls[web_i]
                  /\ SubSeq(all_new_opportunities', 1, Len(all_new_opportunities))
                        = all_new_opportunities]_vars
    /\ [][web_pc = "notify" =>
              {web_sent'[k] : k \in DOMAIN web_sent'}
                  = {all_new_opportunities[k].club.name : k \in DOMAIN all_new_opportunities}]_vars

\* In a second monitor_once call a club of the first URL that the first call
\* had recorded as available is found available again and is not reported,
\* while another club of the page, not recorded before, is.
C39_Witness ==
    /\ web_cycles = 2
    /\ last_check.page = 1
    /\ last_check.kind = "ok"
    /\ ChessClub \in last_check.available
    /\ ChessClub \in recorded[1]
    /\ last_check.reported = {GoClub}

====
